---- MODULE Spec2Model ----
(***************************************************************************)
(* Model of the Wordle bot of pilzithegoat/wordle_dc (src/bot.py): the     *)
(* session registry WordleCog.games, the WordleGame sessions, the guess    *)
(* evaluation, the hints, the history ledger, the user settings, the daily *)
(* challenge and the achievements, with one action per handler.            *)
(*                                                                         *)
(* The bot runs on one asyncio event loop: a handler runs without          *)
(* interruption from one await to the next, so every action below is the   *)
(* code between two awaits.                                                *)
(***************************************************************************)
EXTENDS Integers, Sequences, FiniteSets, TLC

(***************************************************************************)
(* Program constants.                                                      *)
(***************************************************************************)
MAX_ATTEMPTS == 6
MAX_HINTS == 3
WordLen == 5

(***************************************************************************)
(* Bounds of the model.                                                    *)
(***************************************************************************)
NumLetters == 2
MaxGames == 2
MaxDays == 2
MaxLedgerGames == 3

(***************************************************************************)
(* Characters.  A word is a tuple of one-character strings.                *)
(***************************************************************************)
LowerLetters == <<"a", "b", "c", "d">>
UpperLetters == <<"A", "B", "C", "D">>
Digit == "1"
None == "None"

Positions == 1..WordLen
Alphabet == {LowerLetters[i] : i \in 1..NumLetters}
Words5 == [Positions -> Alphabet]

\* str.isalpha of one character
isalpha_char(c) ==
    \E i \in 1..Len(LowerLetters) : c = LowerLetters[i] \/ c = UpperLetters[i]

\* str.isalpha: every character alphabetic and at least one character
isalpha(s) ==
    Len(s) > 0 /\ \A i \in 1..Len(s) : isalpha_char(s[i])

\* str.lower of one character
lower_char(c) ==
    IF \E i \in 1..Len(UpperLetters) : c = UpperLetters[i]
    THEN LowerLetters[CHOOSE i \in 1..Len(UpperLetters) : c = UpperLetters[i]]
    ELSE c

\* str.lower
lower(s) == [i \in 1..Len(s) |-> lower_char(s[i])]

(***************************************************************************)
(* WordleGame                                                              *)
(***************************************************************************)
Correct == "G"
Present == "Y"
Absent == "B"

\* WordleGame.__init__ with the secret word drawn by random.choice(WORDS);
\* obj is the identity of the Python object.
WordleGame(user_id, word, obj) ==
    [ user_id           |-> user_id,
      obj               |-> obj,
      secret_word       |-> word,
      attempts          |-> << >>,
      remaining         |-> MAX_ATTEMPTS,
      hints_used        |-> 0,
      correct_positions |-> [i \in Positions |-> FALSE],
      hinted_letters    |-> {} ]

\* list.index: the first position holding x
index(list, x) == CHOOSE j \in 1..Len(list) :
                     list[j] = x /\ \A k \in 1..(j - 1) : list[k] # x

\* ExactPass without "secret[i] = None": an exact match stays in the pool
ExactPass_keeps(secret, guess) ==
    [ result |-> [i \in Positions |-> IF guess[i] = secret[i] THEN Correct ELSE ""],
      secret |-> secret ]

\* first loop of check_guess: exact matches are marked and taken out of secret
ExactPass(secret, guess) ==
    [ result |-> [i \in Positions |-> IF guess[i] = secret[i] THEN Correct ELSE ""],
      secret |-> [i \in Positions |-> IF guess[i] = secret[i] THEN None ELSE secret[i]] ]

\* second loop of check_guess, from position i on
RECURSIVE PresentPass(_, _, _, _)
PresentPass(i, guess, secret, result) ==
    IF i > WordLen THEN result
    ELSE IF result[i] = Correct THEN PresentPass(i + 1, guess, secret, result)
    ELSE IF \E j \in Positions : secret[j] = guess[i]
         THEN PresentPass(i + 1, guess,
                          [secret EXCEPT ![index(secret, guess[i])] = None],
                          [result EXCEPT ![i] = Present])
         ELSE PresentPass(i + 1, guess, secret, [result EXCEPT ![i] = Absent])

\* the single loop that asks "guess[i] in secret_word" without a pool
GuessResult_single_pass(game, guess) ==
    [i \in Positions |->
        IF guess[i] = game.secret_word[i] THEN Correct
        ELSE IF \E j \in Positions : game.secret_word[j] = guess[i] THEN Present
        ELSE Absent]

\* a result that keeps the marks of game.correct_positions
GuessResult_sticky(game, guess) ==
    LET p1 == ExactPass(game.secret_word, guess)
        r  == PresentPass(1, guess, p1.secret, p1.result)
    IN  [i \in Positions |-> IF game.correct_positions[i] THEN Correct ELSE r[i]]

\* the result list that check_guess returns
GuessResult(game, guess) ==
    LET p1 == ExactPass(game.secret_word, guess)
    IN  PresentPass(1, guess, p1.secret, p1.result)

\* check_guess without "self.remaining -= 1"
check_guess_keeps_remaining(game, guess) ==
    LET result == GuessResult(game, guess)
    IN  [game EXCEPT
           !.correct_positions = [i \in Positions |->
                                    game.correct_positions[i] \/ guess[i] = game.secret_word[i]],
           !.attempts = Append(game.attempts, <<lower(guess), result>>)]

\* WordleGame.check_guess: the session after the call
check_guess(game, guess) ==
    LET result == GuessResult(game, guess)
    IN  [game EXCEPT
           !.correct_positions = [i \in Positions |->
                                    game.correct_positions[i] \/ guess[i] = game.secret_word[i]],
           !.attempts = Append(game.attempts, <<lower(guess), result>>),
           !.remaining = game.remaining - 1]

\* bot2.py, WordleGame.check_guess: the session after the call.  One loop
\* over the positions marks a letter Present when it is anywhere in the
\* secret word; correct_positions starts again from all False.
bot2_check_guess(game, guess) ==
    LET result == [i \in Positions |->
                     IF guess[i] = game.secret_word[i] THEN Correct
                     ELSE IF \E j \in Positions : game.secret_word[j] = guess[i] THEN Present
                     ELSE Absent]
    IN  [game EXCEPT
           !.correct_positions = [i \in Positions |-> guess[i] = game.secret_word[i]],
           !.attempts = Append(game.attempts, <<guess, result>>),
           !.remaining = game.remaining - 1]

(***************************************************************************)
(* The word list and the inputs of the handlers.                           *)
(***************************************************************************)
Players == {1, 2}
Guilds == {1, 2}

\* WORDS: the lines of the words file that have five characters, lowercased
WORDS == << <<"a", "b", "b", "a", "c">>, <<"b", "a", "b", "c", "c">> >>
WordSet == {WORDS[i] : i \in 1..Len(WORDS)}

\* what a player may type into the GuessModal (or hand to the handler)
Guesses == WordSet \cup
           { <<"b", "b", "a", "a", "a">>,
             <<"A", "B", "B", "A", "C">>,
             <<"a", "b", "b", "a">>,
             <<"a", "b", Digit, "a", "c">> }

VARIABLES
    games,       \* WordleCog.games: user id -> WordleGame
    history,     \* WordleCog.history.data (GameHistory)
    settings,    \* WordleCog.settings.settings (UserSettings)
    daily,       \* WordleCog.daily_challenge.data (DailyChallenge)
    today,       \* datetime.now().date(), as a day number
    sleeping,    \* the handle_end_game coroutines suspended in their awaits
    response,    \* the last answer sent through interaction.response
    created,     \* the number of WordleGame objects constructed so far
    uuids,       \* the number of record ids drawn so far
    ended,       \* log of the sessions that ended: who, how, under which setting
    history_view, \* the HistoryView on display, with the modal of its update_mode
    timed_out,   \* the sessions whose GameView has timed out
    disk         \* the history file and the daily file as last written

vars == <<games, history, settings, daily, today, sleeping, response, created, uuids, ended,
          history_view, timed_out, disk>>

\* dict.get(key, default) on a function with a finite domain
Get(d, k, default) == IF k \in DOMAIN d THEN d[k] ELSE default

\* dict[key] = value
Put(d, k, v) == [x \in DOMAIN d \cup {k} |-> IF x = k THEN v ELSE d[x]]

\* dict.pop(key)
Pop(d, k) == [x \in DOMAIN d \ {k} |-> d[x]]

\* an assignment of [x] in the place of list.insert(0, x)
insert0_replaces(list, x) == <<x>>

\* list.append(x) in the place of list.insert(0, x)
insert0_at_end(list, x) == Append(list, x)

\* list.insert(0, x)
insert0(list, x) == <<x>> \o list

EmptyDict == [x \in {} |-> 0]

\* an AnonCheckModal that is not open
NoModal == [ state |-> "none", entered |-> << >>, verified |-> FALSE ]

\* no HistoryView is on display
NoView ==
    [ user_id       |-> 0,
      guild_id      |-> 0,
      current_scope |-> "server",
      current_mode  |-> "public",
      page          |-> 0,
      modal         |-> NoModal ]

(***************************************************************************)
(* UserSettings                                                            *)
(***************************************************************************)
\* the anon_id drawn for a user: eight characters of a uuid4
AnonId(user_id) == <<"anon", user_id>>

\* "anon_password": None
NoPassword == << >>

\* hash_password: a bcrypt hash of the password
hash_password(password) == <<"bcrypt", password>>

\* verify_password: bcrypt.checkpw of the password against the stored hash
verify_password(stored_hash, password) == stored_hash = hash_password(password)

default_settings(user_id) ==
    [ stats_public   |-> TRUE,
      history_public |-> TRUE,
      anonymous      |-> FALSE,
      anon_id        |-> AnonId(user_id),
      anon_password  |-> NoPassword ]

\* UserSettings.get_settings: the settings dict after the call (a new user gets
\* the defaults); the caller reads st[user_id]
get_settings(st, user_id) ==
    IF user_id \in DOMAIN st THEN st ELSE Put(st, user_id, default_settings(user_id))

\* UserSettings.update_settings(user_id, anonymous=value)
update_settings(st, user_id, value) ==
    LET s1 == get_settings(st, user_id)
    IN  [s1 EXCEPT ![user_id].anonymous = value]

\* UserSettings.update_settings(user_id, anon_password=password)
set_anon_password(st, user_id, password) ==
    LET s1 == get_settings(st, user_id)
    IN  [s1 EXCEPT ![user_id].anon_password =
            IF password # NoPassword THEN hash_password(password) ELSE password]

\* UserSettings.update_settings(user_id, stats_public=value)
set_stats_public(st, user_id, value) ==
    LET s1 == get_settings(st, user_id)
    IN  [s1 EXCEPT ![user_id].stats_public = value]

\* UserSettings.update_settings(user_id, history_public=value)
set_history_public(st, user_id, value) ==
    LET s1 == get_settings(st, user_id)
    IN  [s1 EXCEPT ![user_id].history_public = value]

(***************************************************************************)
(* GameHistory                                                             *)
(***************************************************************************)
default_data_structure ==
    [ guilds          |-> EmptyDict,
      global          |-> EmptyDict,
      anonymous_games |-> EmptyDict,
      achievements    |-> EmptyDict ]

\* source["users"] of get_leaderboard and get_user_games
ScopeUsers(data, scope, guild_id) ==
    IF scope = "global" THEN data.global ELSE Get(data.guilds, guild_id, EmptyDict)

\* GameHistory.get_user_games
get_user_games(data, user_id, scope, guild_id) ==
    Get(ScopeUsers(data, scope, guild_id), user_id, << >>)

\* GameHistory.get_anonymous_games
get_anonymous_games(data, anon_id) ==
    Get(data.anonymous_games, anon_id, << >>)

\* the game_entry that add_game builds; user_settings is the user's entry of the
\* settings file, which every change of WordleCog.settings has been saved to
game_entry(user_settings, guild_id, game_data, id, now) ==
    [ id        |-> id,
      timestamp |-> now,
      won       |-> game_data.won,
      word      |-> game_data.word,
      attempts  |-> Len(game_data.guesses),
      hints     |-> game_data.hints,
      guesses   |-> [k \in 1..Len(game_data.guesses) |->
                       [ word   |-> game_data.guesses[k][1],
                         result |-> game_data.guesses[k][2] ]],
      anonymous |-> user_settings.anonymous,
      guild_id  |-> guild_id ]

\* add_game without its anonymous branch
add_game_always_public(data, user_settings, guild_id, user_id, game_data, id, now) ==
    LET entry == game_entry(user_settings, guild_id, game_data, id, now)
        users == Get(data.guilds, guild_id, EmptyDict)
    IN  [data EXCEPT
           !.guilds = Put(@, guild_id,
                          Put(users, user_id, insert0(Get(users, user_id, << >>), entry))),
           !.global = Put(@, user_id, insert0(Get(@, user_id, << >>), entry))]

\* add_game that leaves out the partition of the guild
add_game_global_only(data, user_settings, guild_id, user_id, game_data, id, now) ==
    LET entry == game_entry(user_settings, guild_id, game_data, id, now)
    IN  IF user_settings.anonymous
        THEN [data EXCEPT !.anonymous_games =
                 Put(@, user_settings.anon_id,
                     insert0(Get(@, user_settings.anon_id, << >>), entry))]
        ELSE [data EXCEPT !.global = Put(@, user_id, insert0(Get(@, user_id, << >>), entry))]

\* GameHistory.add_game: the data after the call
add_game(data, user_settings, guild_id, user_id, game_data, id, now) ==
    LET entry == game_entry(user_settings, guild_id, game_data, id, now)
    IN  IF user_settings.anonymous
        THEN [data EXCEPT !.anonymous_games =
                 Put(@, user_settings.anon_id,
                     insert0(Get(@, user_settings.anon_id, << >>), entry))]
        ELSE LET users == Get(data.guilds, guild_id, EmptyDict)
             IN  [data EXCEPT
                    !.guilds = Put(@, guild_id,
                                   Put(users, user_id, insert0(Get(users, user_id, << >>), entry))),
                    !.global = Put(@, user_id, insert0(Get(@, user_id, << >>), entry))]

\* sum(g["won"] for g in list) when won is TRUE: the games of the list with that outcome
RECURSIVE Count(_, _)
Count(list, won) ==
    IF list = << >> THEN 0
    ELSE (IF Head(list).won = won THEN 1 ELSE 0) + Count(Tail(list), won)

\* valid_games of get_leaderboard
RECURSIVE valid_games(_)
valid_games(list) ==
    IF list = << >> THEN << >>
    ELSE IF ~Head(list).anonymous THEN <<Head(list)>> \o valid_games(Tail(list))
    ELSE valid_games(Tail(list))

\* one entry of the leaderboard list
leaderboard_entry(user_id, list) ==
    LET valid == valid_games(list)
    IN  [ user_id    |-> user_id,
          wins       |-> Count(valid, TRUE),
          total      |-> Len(valid),
          last_games |-> SubSeq(valid, 1, IF Len(valid) < 10 THEN Len(valid) ELSE 10) ]

\* a sort on wins alone
Before_wins_only(a, b) == a.wins > b.wins

\* the sort key (-wins, -total) of a is smaller than that of b
Before(a, b) ==
    \/ a.wins > b.wins
    \/ a.wins = b.wins /\ a.total > b.total

\* the entries of get_leaderboard before they are sorted
leaderboard(data, scope, guild_id) ==
    LET users == ScopeUsers(data, scope, guild_id)
    IN  {leaderboard_entry(u, users[u]) : u \in {v \in DOMAIN users : valid_games(users[v]) # << >>}}

\* the lists sorted(leaderboard, key=...) may return: entries with equal keys
\* keep the order of the users dict, which the model does not record, so every
\* order of them is taken
sorted_leaderboards(data, scope, guild_id) ==
    LET entries == leaderboard(data, scope, guild_id)
    IN  {s \in [1..Cardinality(entries) -> entries] :
            /\ \A e \in entries : \E i \in DOMAIN s : s[i] = e
            /\ \A i, j \in DOMAIN s : i < j => ~Before(s[j], s[i])}

\* GameHistory.get_leaderboard: one of those lists
get_leaderboard(data, scope, guild_id) ==
    CHOOSE s \in sorted_leaderboards(data, scope, guild_id) : TRUE

\* one field of the embed of show_stats: wins and losses of a list of games
stats_field(name, list) ==
    [ name |-> name, wins |-> Count(list, TRUE), losses |-> Len(list) - Count(list, TRUE) ]

\* what WordleCog.show_stats sends to the requester about the user whose
\* settings entry is user_settings
stats_embed(data, user_settings, requester, user_id) ==
    LET public_games == valid_games(get_user_games(data, user_id, "global", None))
        anon_games   == get_anonymous_games(data, user_settings.anon_id)
    IN  IF requester # user_id /\ ~user_settings.stats_public
        THEN [ private |-> TRUE, fields |-> << >> ]
        ELSE [ private |-> FALSE,
               fields  |-> (IF public_games # << >>
                            THEN <<stats_field("public", public_games)>> ELSE << >>)
                             \o
                           (IF anon_games # << >>
                            THEN <<stats_field("anonymous", anon_games)>> ELSE << >>) ]

(***************************************************************************)
(* WordleGame.add_hint                                                     *)
(***************************************************************************)
\* available: the positions that add_hint draws from
available(game) == {i \in Positions : ~game.correct_positions[i]}

\* add_hint with "hints_used > MAX_HINTS" as its first test
add_hint_ok_one_more(game) ==
    ~(game.hints_used > MAX_HINTS) /\ available(game) # {}

\* whether add_hint returns True
add_hint_ok(game) ==
    ~(game.hints_used >= MAX_HINTS) /\ available(game) # {}

\* WordleGame.add_hint when random.choice(available) is pos
add_hint(game, pos) ==
    [game EXCEPT !.hinted_letters = @ \cup {game.secret_word[pos]},
                 !.hints_used = @ + 1]

(***************************************************************************)
(* DailyChallenge                                                          *)
(***************************************************************************)
\* the data load_data returns when there is no daily file
\* (None for the word and for the date: the empty word and day 0)
NoWord == << >>
NoDate == 0
DailyInit == [ current_word |-> NoWord, last_updated |-> NoDate, participants |-> EmptyDict ]

should_reset(data, date) == data.last_updated # date

\* get_daily_word without "self.data["participants"] = {}"
get_daily_word_keeps_participants(data, date, word) ==
    IF should_reset(data, date)
    THEN [ current_word |-> word, last_updated |-> date, participants |-> data.participants ]
    ELSE data

\* DailyChallenge.get_daily_word: the data after the call, when random.choice
\* draws word; the value returned is the current_word of that data
get_daily_word(data, date, word) ==
    IF should_reset(data, date)
    THEN [ current_word |-> word, last_updated |-> date, participants |-> EmptyDict ]
    ELSE data

has_played(data, user_id) == user_id \in DOMAIN data.participants

add_participant(data, user_id, attempts, now) ==
    [data EXCEPT !.participants = Put(@, user_id, [attempts |-> attempts, timestamp |-> now])]

\* what a call of a method that the class does not define ends in
AttributeError == [ok |-> FALSE, raised |-> "AttributeError"]

\* self.daily_challenge.get_leaderboard(): DailyChallenge defines load_data,
\* save_data, get_daily_word, should_reset, has_played and add_participant,
\* and no get_leaderboard
DailyChallenge_get_leaderboard(data) == AttributeError

\* WordleCog.get_daily_rank: the call of get_leaderboard raises
get_daily_rank(data, user_id) ==
    LET board == DailyChallenge_get_leaderboard(data)
    IN  IF board.ok
        THEN [ok |-> TRUE,
              value |-> CHOOSE i \in DOMAIN board.value : board.value[i][1] = user_id]
        ELSE board

(***************************************************************************)
(* AchievementSystem                                                       *)
(***************************************************************************)
VETERAN_GAMES == 100
ACHIEVEMENTS == <<"speedster", "perfectionist", "hint_hater", "veteran">>

\* ACHIEVEMENTS[a]["condition"]; fast says whether get_duration() < 30, and
\* game.attempts == 1 compares a list with a number, which is False
condition(a, game, total_games, fast) ==
    CASE a = "speedster"     -> fast
      [] a = "perfectionist" -> FALSE
      [] a = "hint_hater"    -> game.hints_used = 0
      [] a = "veteran"       -> total_games >= VETERAN_GAMES

\* total_games of check_achievements
total_games(data, user_settings, user_id) ==
    Len(get_user_games(data, user_id, "global", None))
      + Len(get_anonymous_games(data, user_settings.anon_id))

\* the achievements check_achievements returns as new
new_achievements(data, user_settings, user_id, game, fast) ==
    LET mine == Get(data.achievements, user_id, EmptyDict)
    IN  {ACHIEVEMENTS[i] : i \in {j \in 1..Len(ACHIEVEMENTS) :
            /\ ACHIEVEMENTS[j] \notin DOMAIN mine
            /\ condition(ACHIEVEMENTS[j], game, total_games(data, user_settings, user_id), fast)}}

\* check_achievements without "if achievement_id not in user_achievements"
check_achievements_restamps(data, user_settings, user_id, game, fast, now) ==
    LET mine == Get(data.achievements, user_id, EmptyDict)
        met  == {ACHIEVEMENTS[i] : i \in {j \in 1..Len(ACHIEVEMENTS) :
                    condition(ACHIEVEMENTS[j], game, total_games(data, user_settings, user_id), fast)}}
    IN  [data EXCEPT !.achievements =
            Put(@, user_id, [a \in DOMAIN mine \cup met |-> IF a \in met THEN now ELSE mine[a]])]

\* AchievementSystem.check_achievements: the data after the call
check_achievements(data, user_settings, user_id, game, fast, now) ==
    LET mine == Get(data.achievements, user_id, EmptyDict)
        new  == new_achievements(data, user_settings, user_id, game, fast)
    IN  [data EXCEPT !.achievements =
            Put(@, user_id, [a \in DOMAIN mine \cup new |-> IF a \in DOMAIN mine THEN mine[a] ELSE now])]

(***************************************************************************)
(* The handlers of WordleCog and of its views.                             *)
(***************************************************************************)
Respond(user_id, msg) == response' = [user |-> user_id, msg |-> msg]

\* WordleCog.start_new_game, when random.choice(WORDS) draws word
start_new_game(p, word) ==
    IF p \in DOMAIN games
    THEN /\ Respond(p, "already_active")
         /\ UNCHANGED <<games, history, settings, daily, today, sleeping, created, uuids, ended, history_view, timed_out, disk>>
    ELSE /\ games' = Put(games, p, WordleGame(p, word, created + 1))
         /\ created' = created + 1
         /\ settings' = get_settings(settings, p)
         /\ Respond(p, "game")
         /\ UNCHANGED <<history, daily, today, sleeping, uuids, ended, history_view, timed_out, disk>>

\* WordleCog.daily_command, when get_daily_word draws word on a reset
daily_command(p, word) ==
    IF p \in DOMAIN games
    THEN /\ Respond(p, "already_active")
         /\ UNCHANGED <<games, history, settings, daily, today, sleeping, created, uuids, ended, history_view, timed_out, disk>>
    ELSE /\ daily' = get_daily_word(daily, today, word)
         /\ games' = Put(games, p, WordleGame(p, daily'.current_word, created + 1))
         /\ created' = created + 1
         /\ settings' = get_settings(settings, p)
         /\ Respond(p, "daily_game")
         /\ UNCHANGED <<history, today, sleeping, uuids, ended, history_view, timed_out>>
         /\ disk' = IF should_reset(daily, today) THEN [disk EXCEPT !.daily = daily'] ELSE disk

\* handle_daily without its look into self.games
handle_daily_unchecked(p, word) ==
    IF has_played(daily, p)
    THEN /\ Respond(p, "played_today")
         /\ UNCHANGED <<games, history, settings, daily, today, sleeping, created, uuids, ended, history_view, timed_out, disk>>
    ELSE /\ daily' = get_daily_word(daily, today, word)
         /\ games' = Put(games, p, WordleGame(p, daily'.current_word, created + 1))
         /\ created' = created + 1
         /\ settings' = get_settings(settings, p)
         /\ Respond(p, "daily_game")
         /\ UNCHANGED <<history, today, sleeping, uuids, ended, history_view, timed_out>>
         /\ disk' = IF should_reset(daily, today) THEN [disk EXCEPT !.daily = daily'] ELSE disk

\* WordleCog.handle_daily, when get_daily_word draws word on a reset
handle_daily(p, word) ==
    IF has_played(daily, p)
    THEN /\ Respond(p, "played_today")
         /\ UNCHANGED <<games, history, settings, daily, today, sleeping, created, uuids, ended, history_view, timed_out, disk>>
    ELSE IF p \in DOMAIN games
    THEN /\ Respond(p, "already_active")
         /\ UNCHANGED <<games, history, settings, daily, today, sleeping, created, uuids, ended, history_view, timed_out, disk>>
    ELSE /\ daily' = get_daily_word(daily, today, word)
         /\ games' = Put(games, p, WordleGame(p, daily'.current_word, created + 1))
         /\ created' = created + 1
         /\ settings' = get_settings(settings, p)
         /\ Respond(p, "daily_game")
         /\ UNCHANGED <<history, today, sleeping, uuids, ended, history_view, timed_out>>
         /\ disk' = IF should_reset(daily, today) THEN [disk EXCEPT !.daily = daily'] ELSE disk

\* handle_end_game without "if not game: return"
handle_end_game_without_return(gs, p, guild_id, won, is_daily, fast, id) ==
    LET game == Get(gs, p, WordleGame(p, NoWord, 0))
        st   == get_settings(settings, p)
        h1   == check_achievements(history, st[p], p, game, fast, today)
    IN       /\ games' = Pop(gs, p)
             /\ settings' = st
             /\ history' = add_game(h1, st[p], guild_id, p,
                                    [ won     |-> won,
                                      word    |-> game.secret_word,
                                      guesses |-> game.attempts,
                                      hints   |-> game.hints_used ],
                                    id, today)
             /\ uuids' = uuids + 1
             /\ Respond(p, IF won THEN "won" ELSE "lost")
             /\ sleeping' = sleeping \cup {[ user        |-> p,
                                              obj         |-> game.obj,
                                              secret_word |-> game.secret_word,
                                              attempts    |-> Len(game.attempts),
                                              is_daily    |-> is_daily ]}
             /\ ended' = ended \cup {[ id        |-> id,
                                        user      |-> p,
                                        obj       |-> game.obj,
                                        guild_id  |-> guild_id,
                                        won       |-> won,
                                        attempts  |-> Len(game.attempts),
                                        anonymous |-> st[p].anonymous,
                                        word      |-> game.secret_word,
                                        day       |-> today ]}
             /\ UNCHANGED <<daily, today, created, history_view, timed_out>>
             /\ disk' = [disk EXCEPT !.history = history']

\* WordleCog.handle_end_game up to its first await, for the registry gs: the
\* session is popped, the achievements are checked, the game is recorded and
\* the coroutine goes to sleep; fast says whether get_duration() < 30.  The
\* sleeping coroutine keeps the popped game, of which it will read the secret
\* word and the number of attempts.
handle_end_game(gs, p, guild_id, won, is_daily, fast, id) ==
    IF p \notin DOMAIN gs
    THEN UNCHANGED vars
    ELSE LET game == gs[p]
             st   == get_settings(settings, p)
             h1   == check_achievements(history, st[p], p, game, fast, today)
         IN  /\ games' = Pop(gs, p)
             /\ settings' = st
             /\ history' = add_game(h1, st[p], guild_id, p,
                                    [ won     |-> won,
                                      word    |-> game.secret_word,
                                      guesses |-> game.attempts,
                                      hints   |-> game.hints_used ],
                                    id, today)
             /\ uuids' = uuids + 1
             /\ Respond(p, IF won THEN "won" ELSE "lost")
             /\ sleeping' = sleeping \cup {[ user        |-> p,
                                              obj         |-> game.obj,
                                              secret_word |-> game.secret_word,
                                              attempts    |-> Len(game.attempts),
                                              is_daily    |-> is_daily ]}
             /\ ended' = ended \cup {[ id        |-> id,
                                        user      |-> p,
                                        obj       |-> game.obj,
                                        guild_id  |-> guild_id,
                                        won       |-> won,
                                        attempts  |-> Len(game.attempts),
                                        anonymous |-> st[p].anonymous,
                                        word      |-> game.secret_word,
                                        day       |-> today ]}
             /\ UNCHANGED <<daily, today, created, history_view, timed_out>>
             /\ disk' = [disk EXCEPT !.history = history']

\* WordleCog.handle_end_game after asyncio.sleep(10), for the coroutine c,
\* when get_daily_word draws word on a reset.  With is_daily the coroutine
\* ends in get_daily_rank, which calls DailyChallenge.get_leaderboard.
handle_end_game_resume(c, word) ==
    /\ c \in sleeping
    /\ sleeping' = sleeping \ {c}
    /\ LET d1 == IF c.is_daily
                 THEN add_participant(daily, c.user, c.attempts, today)
                 ELSE daily
           d2 == get_daily_word(d1, today, word)
       IN  /\ daily' = IF c.is_daily THEN d1
                       ELSE IF c.secret_word = d2.current_word
                       THEN add_participant(d2, c.user, c.attempts, today)
                       ELSE d2
           /\ disk' = IF c.is_daily \/ should_reset(daily, today)
                                    \/ c.secret_word = d2.current_word
                      THEN [disk EXCEPT !.daily = daily']
                      ELSE disk
    /\ UNCHANGED <<games, history, settings, today, response, created, uuids, ended, history_view, timed_out>>

\* a validation that looks at the length alone
invalid_input_length_only(guess) == Len(guess) # WordLen

\* "len(guess) != 5 or not guess.isalpha()" of handle_process_guess
invalid_input(guess) == Len(guess) # WordLen \/ ~isalpha(guess)

\* an end test that forgets "game.remaining == 0"
game_over_on_win_only(game, guess) == lower(guess) = game.secret_word

\* "guess.lower() == game.secret_word or game.remaining == 0" of
\* handle_process_guess, for the game after check_guess
game_over(game, guess) == lower(guess) = game.secret_word \/ game.remaining = 0

\* WordleCog.handle_process_guess as GuessModal.on_submit calls it, with
\* is_daily left at False
handle_process_guess(p, guild_id, guess, fast, id) ==
    IF p \notin DOMAIN games
    THEN /\ Respond(p, "start_first")
         /\ UNCHANGED <<games, history, settings, daily, today, sleeping, created, uuids, ended, history_view, timed_out, disk>>
    ELSE IF invalid_input(guess)
    THEN /\ Respond(p, "invalid")
         /\ UNCHANGED <<games, history, settings, daily, today, sleeping, created, uuids, ended, history_view, timed_out, disk>>
    ELSE LET game == check_guess(games[p], lower(guess))
         IN  IF game_over(game, guess)
             THEN handle_end_game(Put(games, p, game), p, guild_id,
                                  lower(guess) = game.secret_word, FALSE, fast, id)
             ELSE /\ games' = Put(games, p, game)
                  /\ Respond(p, "board")
                  /\ UNCHANGED <<history, settings, daily, today, sleeping, created, uuids, ended, history_view, timed_out, disk>>

\* WordleCog.handle_give_hint
handle_give_hint(p) ==
    IF p \notin DOMAIN games \/ ~add_hint_ok(games[p])
    THEN /\ Respond(p, "no_hints")
         /\ UNCHANGED <<games, history, settings, daily, today, sleeping, created, uuids, ended, history_view, timed_out, disk>>
    ELSE /\ \E pos \in available(games[p]) : games' = Put(games, p, add_hint(games[p], pos))
         /\ Respond(p, "hint")
         /\ UNCHANGED <<history, settings, daily, today, sleeping, created, uuids, ended, history_view, timed_out, disk>>

\* the quit_button of GameView.interaction_check
quit_button(p, guild_id, fast, id) ==
    handle_end_game(games, p, guild_id, FALSE, FALSE, fast, id)

\* WordleCog.handle_end_game when a write raises.  file names the file of the
\* first write that fails: with "settings" it is the save_settings of the
\* get_settings that check_achievements calls, before anything is unlocked and
\* before a uuid is drawn (the entry of ended carries the id 0); with
\* "history" it is the save_data at the end of add_game.  The exception leaves
\* the handler, so nothing sleeps and nothing resumes.  caught says whether
\* the caller is the try of GameView.interaction_check, which sends a warning.
handle_end_game_write_fails(gs, p, guild_id, won, fast, id, file, caught) ==
    /\ p \in DOMAIN gs
    /\ LET game == gs[p]
           st   == get_settings(settings, p)
           h0   == [history EXCEPT !.achievements = Put(@, p, Get(@, p, EmptyDict))]
           h1   == check_achievements(history, st[p], p, game, fast, today)
       IN  /\ games' = Pop(gs, p)
           /\ settings' = st
           /\ history' = IF file = "settings"
                         THEN h0
                         ELSE add_game(h1, st[p], guild_id, p,
                                       [ won     |-> won,
                                         word    |-> game.secret_word,
                                         guesses |-> game.attempts,
                                         hints   |-> game.hints_used ],
                                       id, today)
           /\ uuids' = IF file = "settings" THEN uuids ELSE uuids + 1
           /\ ended' = ended \cup {[ id        |-> IF file = "settings" THEN 0 ELSE id,
                                      user      |-> p,
                                      obj       |-> game.obj,
                                      guild_id  |-> guild_id,
                                      won       |-> won,
                                      attempts  |-> Len(game.attempts),
                                      anonymous |-> st[p].anonymous,
                                      word      |-> game.secret_word,
                                      day       |-> today ]}
    /\ IF caught THEN Respond(p, "error") ELSE UNCHANGED response
    /\ UNCHANGED <<daily, today, sleeping, created, history_view, timed_out, disk>>

\* the quit button when a write of handle_end_game raises
quit_button_write_fails(p, guild_id, fast, id, file) ==
    handle_end_game_write_fails(games, p, guild_id, FALSE, fast, id, file, TRUE)

\* GuessModal.on_submit with the guess that ends the game when a write of
\* handle_end_game raises
handle_process_guess_write_fails(p, guild_id, guess, fast, id, file) ==
    /\ p \in DOMAIN games
    /\ ~invalid_input(guess)
    /\ LET game == check_guess(games[p], lower(guess))
       IN  /\ game_over(game, guess)
           /\ handle_end_game_write_fails(Put(games, p, game), p, guild_id,
                                          lower(guess) = game.secret_word, fast, id, file,
                                          FALSE)

\* WordleCog.handle_end_game after asyncio.sleep(10) when the first save_data
\* of DailyChallenge in it raises: in add_participant with is_daily, else in
\* the reset of get_daily_word, else in the add_participant of a game on the
\* daily word
handle_end_game_resume_write_fails(c, word) ==
    /\ c \in sleeping
    /\ sleeping' = sleeping \ {c}
    /\ IF c.is_daily
       THEN daily' = add_participant(daily, c.user, c.attempts, today)
       ELSE IF should_reset(daily, today)
       THEN daily' = get_daily_word(daily, today, word)
       ELSE /\ c.secret_word = daily.current_word
            /\ daily' = add_participant(daily, c.user, c.attempts, today)
    /\ UNCHANGED <<games, history, settings, today, response, created, uuids, ended,
                   history_view, timed_out, disk>>

\* SettingsView.toggle_setting("history_public")
toggle_history_public(p) ==
    /\ settings' = set_history_public(settings, p, ~get_settings(settings, p)[p].history_public)
    /\ Respond(p, "settings")
    /\ UNCHANGED <<games, history, daily, today, sleeping, created, uuids, ended,
                   history_view, timed_out, disk>>

\* AnonPasswordSetModal.on_submit
AnonPasswordSetModal_on_submit(p, password) ==
    /\ settings' = set_anon_password(settings, p, password)
    /\ Respond(p, "password_set")
    /\ UNCHANGED <<games, history, daily, today, sleeping, created, uuids, ended,
                   history_view, timed_out, disk>>

\* HistoryView.get_games
get_games(data, st, view) ==
    IF view.current_mode = "anonymous"
    THEN get_anonymous_games(data, get_settings(st, view.user_id)[view.user_id].anon_id)
    ELSE get_user_games(data, view.user_id, view.current_scope, view.guild_id)

\* WordleCog.show_user_history
show_user_history(requester, user, guild_id) ==
    /\ settings' = get_settings(settings, user)
    /\ IF requester # user /\ ~settings'[user].history_public
       THEN /\ Respond(requester, "history_private")
            /\ UNCHANGED history_view
       ELSE /\ history_view' = [NoView EXCEPT !.user_id = user, !.guild_id = guild_id]
            /\ Respond(requester, "history")
    /\ UNCHANGED <<games, history, daily, today, sleeping, created, uuids, ended,
                   timed_out, disk>>

\* HistoryView.update_scope
update_scope(requester, scope) ==
    /\ history_view.user_id # 0
    /\ history_view' = [history_view EXCEPT !.current_scope = scope, !.page = 0]
    /\ Respond(requester, "history")
    /\ UNCHANGED <<games, history, settings, daily, today, sleeping, created, uuids, ended,
                   timed_out, disk>>

\* update_button_states: the navigation buttons that are not disabled
nav_enabled(data, st, view) ==
    LET total == Len(get_games(data, st, view))
    IN  {"page"}
          \cup (IF view.page <= 0 \/ total = 0 THEN {} ELSE {"first", "prev"})
          \cup (IF view.page >= total - 1 \/ total = 0 THEN {} ELSE {"next", "last"})

\* maximum and minimum of two integers
max2(a, b) == IF a >= b THEN a ELSE b
min2(a, b) == IF a <= b THEN a ELSE b

\* HistoryView.handle_navigation; for the button "page", page_number is what
\* PageSelectModal.on_submit leaves in modal.page_number (0 for None)
handle_navigation(requester, action, page_number) ==
    /\ history_view.user_id # 0
    /\ action \in nav_enabled(history, settings, history_view)
    /\ LET total == Len(get_games(history, settings, history_view))
           page  == history_view.page
       IN  history_view' = [history_view EXCEPT !.page =
               CASE action = "page"  -> IF page_number # 0 THEN page_number - 1 ELSE page
                 [] action = "first" -> 0
                 [] action = "prev"  -> max2(0, page - 1)
                 [] action = "next"  -> min2(total - 1, page + 1)
                 [] OTHER            -> total - 1]
    /\ settings' = IF history_view.current_mode = "anonymous"
                   THEN get_settings(settings, history_view.user_id)
                   ELSE settings
    /\ Respond(requester, "history")
    /\ UNCHANGED <<games, history, daily, today, sleeping, created, uuids, ended,
                   timed_out, disk>>

\* HistoryView.update_mode up to the modal.wait() of verify_anonymity
update_mode(requester, new_mode) ==
    /\ history_view.user_id # 0
    /\ history_view.modal.state = "none"
    /\ IF new_mode = "anonymous"
       THEN /\ settings' = get_settings(settings, history_view.user_id)
            /\ IF settings'[history_view.user_id].anon_password = NoPassword
               THEN /\ Respond(requester, "no_password")
                    /\ UNCHANGED history_view
               ELSE /\ Respond(requester, "modal")
                    /\ history_view' = [history_view EXCEPT !.modal.state = "open"]
       ELSE /\ history_view' = [history_view EXCEPT !.current_mode = new_mode, !.page = 0]
            /\ Respond(requester, "history")
            /\ UNCHANGED settings
    /\ UNCHANGED <<games, history, daily, today, sleeping, created, uuids, ended,
                   timed_out, disk>>

\* AnonCheckModal.on_submit
AnonCheckModal_on_submit(requester, password) ==
    /\ history_view.modal.state = "open"
    /\ settings' = get_settings(settings, history_view.user_id)
    /\ history_view' = [history_view EXCEPT
           !.modal = [ state    |-> "submitted",
                       entered  |-> password,
                       verified |-> verify_password(
                                       settings'[history_view.user_id].anon_password,
                                       password) ]]
    /\ Respond(requester, "deferred")
    /\ UNCHANGED <<games, history, daily, today, sleeping, created, uuids, ended,
                   timed_out, disk>>

\* HistoryView.update_mode after the modal.wait() of verify_anonymity
update_mode_resume(requester) ==
    /\ history_view.modal.state = "submitted"
    /\ IF history_view.modal.verified
       THEN /\ history_view' = [history_view EXCEPT !.current_mode = "anonymous",
                                                     !.page = 0,
                                                     !.modal = NoModal]
            /\ Respond(requester, "history")
       ELSE /\ history_view' = [history_view EXCEPT !.modal = NoModal]
            /\ UNCHANGED response
    /\ UNCHANGED <<games, history, settings, daily, today, sleeping, created, uuids, ended,
                   timed_out, disk>>

\* the GameView of a session has waited its timeout of 300 seconds: the view
\* stops and no longer dispatches its buttons; GameView does not define
\* on_timeout, so nothing else happens and cog.games keeps the session
on_timeout(p) ==
    /\ p \in DOMAIN games
    /\ games[p].obj \notin timed_out
    /\ timed_out' = timed_out \cup {games[p].obj}
    /\ UNCHANGED <<games, history, settings, daily, today, sleeping, response, created, uuids,
                   ended, history_view, disk>>

\* the GameView of the session of p still dispatches its buttons
view_active(p) == p \in DOMAIN games /\ games[p].obj \notin timed_out

\* SettingsView.toggle_setting(interaction, "anonymous") on a view just opened
toggle_setting(p) ==
    /\ settings' = update_settings(settings, p, ~get_settings(settings, p)[p].anonymous)
    /\ Respond(p, "settings")
    /\ UNCHANGED <<games, history, daily, today, sleeping, created, uuids, ended, history_view, timed_out, disk>>

\* SettingsView.toggle_setting(interaction, "stats_public") on a view just opened
toggle_stats_public(p) ==
    /\ settings' = set_stats_public(settings, p, ~get_settings(settings, p)[p].stats_public)
    /\ Respond(p, "settings")
    /\ UNCHANGED <<games, history, daily, today, sleeping, created, uuids, ended, history_view, timed_out, disk>>

\* WordleCog.show_stats asked by requester about user_id
show_stats(requester, user_id) ==
    /\ settings' = get_settings(settings, user_id)
    /\ Respond(requester,
               IF stats_embed(history, settings'[user_id], requester, user_id).private
               THEN "stats_private" ELSE "stats")
    /\ UNCHANGED <<games, history, daily, today, sleeping, created, uuids, ended, history_view, timed_out, disk>>

\* WordleCog.daily_leaderboard (the dailylb command): the call of
\* get_leaderboard raises before an answer is sent
daily_leaderboard(p) ==
    IF DailyChallenge_get_leaderboard(daily).ok
    THEN /\ Respond(p, "daily_leaderboard")
         /\ UNCHANGED <<games, history, settings, daily, today, sleeping, created, uuids, ended, history_view, timed_out, disk>>
    ELSE UNCHANGED vars

\* midnight
next_day ==
    /\ today < MaxDays
    /\ today' = today + 1
    /\ UNCHANGED <<games, history, settings, daily, sleeping, response, created, uuids, ended, history_view, timed_out, disk>>

Init ==
    /\ games = EmptyDict
    /\ history = default_data_structure
    /\ settings = EmptyDict
    /\ daily = DailyInit
    /\ today = 1
    /\ sleeping = {}
    /\ response = [user |-> 0, msg |-> "none"]
    /\ created = 0
    /\ uuids = 0
    /\ ended = {}
    /\ history_view = NoView
    /\ timed_out = {}
    /\ disk = [history |-> history, daily |-> daily]

\* the ids that str(uuid.uuid4())[:8] may give to a record
RecordIds == 1..MaxGames

\* the id of a record when no two draws of uuid4 agree: the number of the draw
FreshId == uuids + 1

Next ==
    \E p \in Players :
        \/ \E word \in WordSet : start_new_game(p, word) /\ created' <= MaxGames
        \/ \E word \in WordSet : daily_command(p, word) /\ created' <= MaxGames
        \/ \E word \in WordSet : handle_daily(p, word) /\ created' <= MaxGames
        \/ \E guild_id \in Guilds, guess \in Guesses, fast \in BOOLEAN, id \in RecordIds :
              handle_process_guess(p, guild_id, guess, fast, id)
        \/ handle_give_hint(p)
        \/ \E guild_id \in Guilds, fast \in BOOLEAN, id \in RecordIds :
              quit_button(p, guild_id, fast, id)
        \/ toggle_setting(p)
        \/ daily_leaderboard(p)
        \/ \E c \in sleeping, word \in WordSet : handle_end_game_resume(c, word)
        \/ next_day

\* every handler, every player, every input
Spec == Init /\ [][Next]_vars

(***************************************************************************)
(* SessionSpec: the life of one session.  Player 1 starts one game in      *)
(* guild 1, then guesses (any input of Guesses), asks for hints and quits  *)
(* as they like.  In this and the next two specifications no two draws of  *)
(* uuid4 agree.                                                            *)
(***************************************************************************)
SessionStart == created = 0 /\ \E word \in WordSet : start_new_game(1, word)

SessionGuess ==
    \E guess \in Guesses, fast \in BOOLEAN : handle_process_guess(1, 1, guess, fast, FreshId)

SessionHint == handle_give_hint(1)

SessionQuit == \E fast \in BOOLEAN : quit_button(1, 1, fast, FreshId)

SessionResume == \E c \in sleeping, word \in WordSet : handle_end_game_resume(c, word)

SessionNext ==
    SessionStart \/ SessionGuess \/ SessionHint \/ SessionQuit \/ SessionResume

SessionSpec == Init /\ [][SessionNext]_vars

(***************************************************************************)
(* RegistrySpec: the start requests of two players in any order, through   *)
(* the three handlers that create a session.  A player makes at most one   *)
(* wrong guess before the right one, asks for no hint, plays in guild 1,   *)
(* and every game lasts 30 seconds or more.                                *)
(***************************************************************************)
GuessOnce(p, guild_id) ==
    \E guess \in WordSet :
        /\ p \in DOMAIN games
        /\ games[p].attempts = << >> \/ guess = games[p].secret_word
        /\ handle_process_guess(p, guild_id, guess, FALSE, FreshId)

RegistryStart ==
    \E p \in Players, word \in WordSet : start_new_game(p, word) /\ created' <= MaxGames

RegistryDailyCommand ==
    \E p \in Players, word \in WordSet : daily_command(p, word) /\ created' <= MaxGames

RegistryHandleDaily ==
    \E p \in Players, word \in WordSet : handle_daily(p, word) /\ created' <= MaxGames

RegistryGuess == \E p \in Players : GuessOnce(p, 1)

RegistryQuit == \E p \in Players : quit_button(p, 1, FALSE, FreshId)

RegistryResume == \E c \in sleeping, word \in WordSet : handle_end_game_resume(c, word)

RegistryNext ==
    \/ RegistryStart
    \/ RegistryDailyCommand
    \/ RegistryHandleDaily
    \/ RegistryGuess
    \/ RegistryQuit
    \/ RegistryResume

RegistrySpec == Init /\ [][RegistryNext]_vars

(***************************************************************************)
(* AnonSpec: games of two players and toggles of their anonymous setting.  *)
(* The games are started by start_new_game; a player makes at most one     *)
(* wrong guess before the right one, asks for no hint, and every game      *)
(* lasts 30 seconds or more.                                               *)
(***************************************************************************)
AnonStart ==
    \E p \in Players, word \in WordSet : start_new_game(p, word) /\ created' <= MaxGames

AnonGuess == \E p \in Players, guild_id \in Guilds : GuessOnce(p, guild_id)

AnonQuit == \E p \in Players, guild_id \in Guilds : quit_button(p, guild_id, FALSE, FreshId)

AnonToggle == \E p \in Players : toggle_setting(p)

AnonResume == \E c \in sleeping, word \in WordSet : handle_end_game_resume(c, word)

AnonNext == AnonStart \/ AnonGuess \/ AnonQuit \/ AnonToggle \/ AnonResume

AnonSpec == Init /\ [][AnonNext]_vars

(***************************************************************************)
(* DailySpec: the daily challenge over the days.  Two players start games  *)
(* in guild 1 through the three start handlers, make at most one wrong     *)
(* guess before the right one or quit, ask for no hint and for the daily   *)
(* leaderboard; the day changes.  No two draws of uuid4 agree.             *)
(***************************************************************************)
DailyStart ==
    \E p \in Players, word \in WordSet : start_new_game(p, word) /\ created' <= MaxGames

DailyCommand ==
    \E p \in Players, word \in WordSet : daily_command(p, word) /\ created' <= MaxGames

DailyHandle ==
    \E p \in Players, word \in WordSet : handle_daily(p, word) /\ created' <= MaxGames

DailyGuess == \E p \in Players : GuessOnce(p, 1)

DailyQuit == \E p \in Players : quit_button(p, 1, FALSE, FreshId)

DailyResume == \E c \in sleeping, word \in WordSet : handle_end_game_resume(c, word)

DailyLeaderboard == \E p \in Players : daily_leaderboard(p)

DailyNext ==
    \/ DailyStart
    \/ DailyCommand
    \/ DailyHandle
    \/ DailyGuess
    \/ DailyQuit
    \/ DailyResume
    \/ DailyLeaderboard
    \/ next_day

DailySpec == Init /\ [][DailyNext]_vars

(***************************************************************************)
(* LedgerSpec: the ledger after up to MaxLedgerGames games.  Two players   *)
(* start games on the first word of the list, in either guild, and end     *)
(* them by the right guess or by a quit, with no wrong guess and no hint;  *)
(* they toggle their anonymous setting.  No two draws of uuid4 agree.      *)
(***************************************************************************)
LedgerStart ==
    \E p \in Players : start_new_game(p, WORDS[1]) /\ created' <= MaxLedgerGames

LedgerWin ==
    \E p \in DOMAIN games, guild_id \in Guilds :
        handle_process_guess(p, guild_id, games[p].secret_word, FALSE, FreshId)

LedgerQuit == \E p \in DOMAIN games, guild_id \in Guilds : quit_button(p, guild_id, FALSE, FreshId)

LedgerToggle == \E p \in Players : toggle_setting(p)

LedgerResume == \E c \in sleeping : handle_end_game_resume(c, WORDS[1])

LedgerNext == LedgerStart \/ LedgerWin \/ LedgerQuit \/ LedgerToggle \/ LedgerResume

LedgerSpec == Init /\ [][LedgerNext]_vars

(***************************************************************************)
(* RecordSpec: the games of one player, with what a record keeps of them.  *)
(* Player 1 plays up to MaxGames games in either guild, makes at most one  *)
(* wrong guess before the right one, asks for at most one hint per game,   *)
(* quits, and toggles the anonymous setting.  No two draws of uuid4 agree. *)
(***************************************************************************)
RecordStart == \E word \in WordSet : start_new_game(1, word) /\ created' <= MaxGames

RecordGuess == \E guild_id \in Guilds : GuessOnce(1, guild_id)

RecordHint == 1 \in DOMAIN games /\ games[1].hints_used = 0 /\ handle_give_hint(1)

RecordQuit == \E guild_id \in Guilds : quit_button(1, guild_id, FALSE, FreshId)

RecordToggle == toggle_setting(1)

RecordResume == \E c \in sleeping, word \in WordSet : handle_end_game_resume(c, word)

RecordNext ==
    RecordStart \/ RecordGuess \/ RecordHint \/ RecordQuit \/ RecordToggle \/ RecordResume

RecordSpec == Init /\ [][RecordNext]_vars

(***************************************************************************)
(* IdSpec: the ids of the records.  Two players start games on the first   *)
(* word of the list in guild 1 and end them by the right guess or by a     *)
(* quit; they toggle their anonymous setting.  Each record gets the id     *)
(* that str(uuid.uuid4())[:8] gives it, any of RecordIds.                  *)
(***************************************************************************)
IdStart == \E p \in Players : start_new_game(p, WORDS[1]) /\ created' <= MaxGames

IdWin ==
    \E p \in DOMAIN games, id \in RecordIds :
        handle_process_guess(p, 1, games[p].secret_word, FALSE, id)

IdQuit == \E p \in DOMAIN games, id \in RecordIds : quit_button(p, 1, FALSE, id)

IdToggle == \E p \in Players : toggle_setting(p)

IdResume == \E c \in sleeping : handle_end_game_resume(c, WORDS[1])

IdNext == IdStart \/ IdWin \/ IdQuit \/ IdToggle \/ IdResume

IdSpec == Init /\ [][IdNext]_vars

(***************************************************************************)
(* AchieveSpec: the achievements over the games and the days.  Two players *)
(* play up to MaxGames games on the first word of the list in guild 1,     *)
(* fast or not, with at most one wrong guess before the right one and at   *)
(* most one hint per game, or quit; the day changes.  No two draws of      *)
(* uuid4 agree.                                                            *)
(***************************************************************************)
AchieveNext ==
    \/ \E p \in Players : start_new_game(p, WORDS[1]) /\ created' <= MaxGames
    \/ \E p \in DOMAIN games, guess \in WordSet, fast \in BOOLEAN :
           /\ games[p].attempts = << >> \/ guess = games[p].secret_word
           /\ handle_process_guess(p, 1, guess, fast, FreshId)
    \/ \E p \in DOMAIN games : games[p].hints_used = 0 /\ handle_give_hint(p)
    \/ \E p \in DOMAIN games, fast \in BOOLEAN : quit_button(p, 1, fast, FreshId)
    \/ \E c \in sleeping : handle_end_game_resume(c, WORDS[1])
    \/ next_day

AchieveSpec == Init /\ [][AchieveNext]_vars

(***************************************************************************)
(* VeteranSpec: the games around the VETERAN_GAMES-th of a player.  The    *)
(* bot starts with the history file of player 1 after PlayedBefore games   *)
(* in guild 1, each quit at once and not within 30 seconds; the daily word *)
(* of the day is the second word of the list.  The player then plays up to *)
(* three games more on the first word, won by the first guess or quit, and *)
(* toggles the anonymous setting.  No two draws of uuid4 agree.            *)
(***************************************************************************)
PlayedBefore == VETERAN_GAMES - 2

\* the ledger after the first n of those games: handle_end_game calls
\* check_achievements and then add_game for each
RECURSIVE PlayedHistory(_)
PlayedHistory(n) ==
    IF n = 0
    THEN default_data_structure
    ELSE LET game == WordleGame(1, WORDS[1], n)
             h1   == check_achievements(PlayedHistory(n - 1), default_settings(1), 1,
                                        game, FALSE, 1)
         IN  add_game(h1, default_settings(1), 1, 1,
                      [ won     |-> FALSE,
                        word    |-> game.secret_word,
                        guesses |-> game.attempts,
                        hints   |-> game.hints_used ],
                      n, 1)

VeteranInit ==
    /\ games = EmptyDict
    /\ history = PlayedHistory(PlayedBefore)
    /\ settings = get_settings(EmptyDict, 1)
    /\ daily = get_daily_word(DailyInit, 1, WORDS[2])
    /\ today = 1
    /\ sleeping = {}
    /\ response = [user |-> 1, msg |-> "lost"]
    /\ created = PlayedBefore
    /\ uuids = PlayedBefore
    /\ ended = {[ id        |-> n,
                  user      |-> 1,
                  obj       |-> n,
                  guild_id  |-> 1,
                  won       |-> FALSE,
                  attempts  |-> 0,
                  anonymous |-> FALSE,
                  word      |-> WORDS[1],
                  day       |-> 1 ] : n \in 1..PlayedBefore}
    /\ history_view = NoView
    /\ timed_out = {}
    /\ disk = [history |-> history, daily |-> daily]

VeteranNext ==
    \/ start_new_game(1, WORDS[1]) /\ created' <= VETERAN_GAMES + 1
    \/ 1 \in DOMAIN games /\ handle_process_guess(1, 1, games[1].secret_word, FALSE, FreshId)
    \/ 1 \in DOMAIN games /\ quit_button(1, 1, FALSE, FreshId)
    \/ toggle_setting(1)
    \/ \E c \in sleeping : handle_end_game_resume(c, WORDS[2])

VeteranSpec == VeteranInit /\ [][VeteranNext]_vars

(***************************************************************************)
(* PrivacySpec: what the stats show.  Two players play up to MaxGames      *)
(* games on the first word of the list in guild 1, won by the first guess  *)
(* or quit; they toggle their anonymous and stats_public settings and ask  *)
(* for the stats of each other.  No two draws of uuid4 agree.              *)
(***************************************************************************)
PrivacyNext ==
    \/ \E p \in Players : start_new_game(p, WORDS[1]) /\ created' <= MaxGames
    \/ \E p \in DOMAIN games : handle_process_guess(p, 1, games[p].secret_word, FALSE, FreshId)
    \/ \E p \in DOMAIN games : quit_button(p, 1, FALSE, FreshId)
    \/ \E p \in Players : toggle_setting(p)
    \/ \E p \in Players : toggle_stats_public(p)
    \/ \E requester, user_id \in Players : show_stats(requester, user_id)
    \/ \E c \in sleeping : handle_end_game_resume(c, WORDS[1])

PrivacySpec == Init /\ [][PrivacyNext]_vars

(***************************************************************************)
(* TimeoutSpec: the players start games on the first word of the list and  *)
(* ask for the daily game; through the buttons of the GameView they guess  *)
(* (a wrong word at most once), take one hint or quit, for as long as the  *)
(* view has not timed out.  The                                            *)
(* timer of a view and the coroutine that sleeps in handle_end_game are    *)
(* run by the event loop, so both are taken when they stay enabled; what a *)
(* player does is up to the player.                                        *)
(***************************************************************************)
TimeoutExpire == \E p \in Players : on_timeout(p)

TimeoutResume == \E c \in sleeping : handle_end_game_resume(c, WORDS[1])

TimeoutNext ==
    \/ \E p \in Players : start_new_game(p, WORDS[1]) /\ created' <= MaxGames
    \/ \E p \in Players : handle_daily(p, WORDS[1]) /\ created' <= MaxGames
    \/ \E p \in DOMAIN games, guess \in {WORDS[1], WORDS[2]} :
           /\ view_active(p)
           /\ games[p].attempts = << >> \/ guess = games[p].secret_word
           /\ handle_process_guess(p, 1, guess, FALSE, FreshId)
    \/ \E p \in DOMAIN games :
           view_active(p) /\ games[p].hints_used = 0 /\ handle_give_hint(p)
    \/ \E p \in DOMAIN games : view_active(p) /\ quit_button(p, 1, FALSE, FreshId)
    \/ TimeoutExpire
    \/ TimeoutResume

TimeoutSpec ==
    /\ Init
    /\ [][TimeoutNext]_vars
    /\ WF_vars(TimeoutExpire)
    /\ WF_vars(TimeoutResume)

(***************************************************************************)
(* ViewSpec: player 1 plays games on the first word of the list in guild   *)
(* 1, won by the first guess or quit, toggles the anonymous setting, sets  *)
(* an anonymous password and makes the history private or public; either   *)
(* player opens the HistoryView of player 1, changes its scope and mode,   *)
(* answers the password modal and pages through the games.                 *)
(***************************************************************************)
Passwords == {<<"password", 1>>, <<"password", 2>>}

ViewNext ==
    \/ start_new_game(1, WORDS[1]) /\ created' <= MaxGames
    \/ 1 \in DOMAIN games /\ handle_process_guess(1, 1, games[1].secret_word, FALSE, FreshId)
    \/ 1 \in DOMAIN games /\ quit_button(1, 1, FALSE, FreshId)
    \/ toggle_setting(1)
    \/ toggle_history_public(1)
    \/ \E password \in Passwords : AnonPasswordSetModal_on_submit(1, password)
    \/ \E requester \in Players : show_user_history(requester, 1, 1)
    \/ \E requester \in Players, scope \in {"server", "global"} : update_scope(requester, scope)
    \/ \E requester \in Players, new_mode \in {"public", "anonymous"} :
           update_mode(requester, new_mode)
    \/ \E requester \in Players, password \in Passwords :
           AnonCheckModal_on_submit(requester, password)
    \/ \E requester \in Players : update_mode_resume(requester)
    \/ \E requester \in Players, action \in {"first", "prev", "page", "next", "last"} :
           \E page_number \in 0..Len(get_games(history, settings, history_view)) :
               /\ action # "page" => page_number = 0
               /\ handle_navigation(requester, action, page_number)
    \/ \E c \in sleeping : handle_end_game_resume(c, WORDS[1])

ViewSpec == Init /\ [][ViewNext]_vars

(***************************************************************************)
(* PersistSpec: the players start games on a word of the list or on the    *)
(* daily word, which is the first word of the list on every day, win them  *)
(* by the first guess or quit; any write of handle_end_game may raise.     *)
(***************************************************************************)
Files == {"settings", "history"}

PersistNext ==
    \/ \E p \in Players, word \in WordSet : start_new_game(p, word) /\ created' <= MaxGames
    \/ \E p \in Players : handle_daily(p, WORDS[1]) /\ created' <= MaxGames
    \/ \E p \in DOMAIN games : handle_process_guess(p, 1, games[p].secret_word, FALSE, FreshId)
    \/ \E p \in DOMAIN games : quit_button(p, 1, FALSE, FreshId)
    \/ \E c \in sleeping : handle_end_game_resume(c, WORDS[1])
    \/ \E p \in DOMAIN games, file \in Files :
           handle_process_guess_write_fails(p, 1, games[p].secret_word, FALSE, FreshId, file)
    \/ \E p \in DOMAIN games, file \in Files :
           quit_button_write_fails(p, 1, FALSE, FreshId, file)
    \/ \E c \in sleeping : handle_end_game_resume_write_fails(c, WORDS[1])
    \/ next_day

PersistSpec == Init /\ [][PersistNext]_vars

(***************************************************************************)
(* EvalSpec: check_guess as a function of the secret and the guess.  The   *)
(* word list holds every word over Alphabet; player 1 has started a game   *)
(* and the first guess, any word over Alphabet, is evaluated.              *)
(***************************************************************************)
EvalInit ==
    /\ \E word \in Words5 : games = Put(EmptyDict, 1, WordleGame(1, word, 1))
    /\ history = default_data_structure
    /\ settings = get_settings(EmptyDict, 1)
    /\ daily = DailyInit
    /\ today = 1
    /\ sleeping = {}
    /\ response = [user |-> 1, msg |-> "game"]
    /\ created = 1
    /\ uuids = 0
    /\ ended = {}
    /\ history_view = NoView
    /\ timed_out = {}
    /\ disk = [history |-> history, daily |-> daily]

EvalCheckGuess ==
    /\ games[1].attempts = << >>
    /\ \E guess \in Words5 : games' = Put(games, 1, check_guess(games[1], guess))
    /\ UNCHANGED <<history, settings, daily, today, sleeping, response, created, uuids, ended, history_view, timed_out, disk>>

EvalNext == EvalCheckGuess

EvalSpec == EvalInit /\ [][EvalNext]_vars

(***************************************************************************)
(* Bot2Spec: check_guess of bot2.py as a function of the secret and the    *)
(* guess, on the sessions and the guesses of EvalSpec.                     *)
(***************************************************************************)
Bot2CheckGuess ==
    /\ games[1].attempts = << >>
    /\ \E guess \in Words5 : games' = Put(games, 1, bot2_check_guess(games[1], guess))
    /\ UNCHANGED <<history, settings, daily, today, sleeping, response, created, uuids, ended, history_view, timed_out, disk>>

Bot2Next == Bot2CheckGuess

Bot2Spec == EvalInit /\ [][Bot2Next]_vars

\* every evaluation stored in a session: <<secret, guessed word, result>>
AllEvaluations ==
    UNION {{<<games[p].secret_word, games[p].attempts[k][1], games[p].attempts[k][2]>> :
               k \in DOMAIN games[p].attempts} : p \in DOMAIN games}

Occurrences(word, c) == Cardinality({i \in DOMAIN word : word[i] = c})

Marked(guess, result, c) ==
    Cardinality({i \in DOMAIN guess : guess[i] = c /\ result[i] \in {Correct, Present}})

\* C1: for every secret S and guess G, the result of check_guess has, on the
\* positions holding a letter c, no more Correct or Present marks than c has
\* occurrences in S.
C1_NoMoreMarksThanOccurrences ==
    \A e \in AllEvaluations :
        \A i \in DOMAIN e[2] :
            Marked(e[2], e[3], e[2][i]) <= Occurrences(e[1], e[2][i])

\* C1 witness: a guess that repeats a letter more often than the secret holds
\* it was evaluated, and that letter got exactly as many marks as the secret
\* has occurrences of it.
C1_Witness ==
    \E e \in AllEvaluations :
        \E i \in DOMAIN e[2] :
            /\ Occurrences(e[2], e[2][i]) > Occurrences(e[1], e[2][i])
            /\ Occurrences(e[1], e[2][i]) >= 1
            /\ Marked(e[2], e[3], e[2][i]) = Occurrences(e[1], e[2][i])

\* The two-pass rule with a pool of letter counts: pool[c] is the number of
\* occurrences of c in the secret that no exact match and no earlier Present
\* has consumed.
RECURSIVE RefScan(_, _, _, _, _)
RefScan(i, secret, guess, pool, result) ==
    IF i > WordLen THEN result
    ELSE IF guess[i] = secret[i]
         THEN RefScan(i + 1, secret, guess, pool, Append(result, Correct))
    ELSE IF pool[guess[i]] > 0
         THEN RefScan(i + 1, secret, guess,
                      [pool EXCEPT ![guess[i]] = @ - 1], Append(result, Present))
    ELSE RefScan(i + 1, secret, guess, pool, Append(result, Absent))

Reference(secret, guess) ==
    LET letters == {guess[i] : i \in Positions} \cup {secret[i] : i \in Positions}
        pool    == [c \in letters |->
                      Cardinality({k \in Positions : secret[k] = c /\ guess[k] # secret[k]})]
    IN  RefScan(1, secret, guess, pool, << >>)

\* C2: for every secret S and guess G, check_guess returns the result of the
\* two-pass rule: Correct where G[i] = S[i]; on the other positions, from left
\* to right, Present while the letter has an unconsumed occurrence among the
\* secret letters not matched exactly, Absent otherwise.
C2_TwoPassRule ==
    \A e \in AllEvaluations : e[3] = Reference(e[1], e[2])

\* C2 witness: an evaluation with an exact match, a Present and an Absent mark
\* of one and the same letter.
C2_Witness ==
    \E e \in AllEvaluations :
        \E i, j, k \in Positions :
            /\ e[2][i] = e[2][j] /\ e[2][j] = e[2][k]
            /\ e[3][i] = Correct /\ e[3][j] = Present /\ e[3][k] = Absent

(***************************************************************************)
(* The records of the ledger and the evaluations they keep.                *)
(***************************************************************************)
\* every record of the ledger, under a real id or under an anonymous id
AllRecords(data) ==
    UNION {{data.global[u][k] : k \in DOMAIN data.global[u]} : u \in DOMAIN data.global}
      \cup
    UNION {{data.anonymous_games[a][k] : k \in DOMAIN data.anonymous_games[a]} :
              a \in DOMAIN data.anonymous_games}

\* every evaluation made so far, of a running session or of a recorded game
EveryEvaluation ==
    AllEvaluations \cup
    UNION {{<<r.word, r.guesses[k].word, r.guesses[k].result>> : k \in DOMAIN r.guesses} :
              r \in AllRecords(history)}

\* C3: two evaluations of the same guess against the same secret give the
\* same per-letter result, whatever the attempts, the remaining counter, the
\* correct positions and the hinted letters of the session were at each call.
C3_SameResultEachTime ==
    \A e, f \in EveryEvaluation : e[1] = f[1] /\ e[2] = f[2] => e[3] = f[3]

\* C3 witness: a session evaluated one word twice, with another guess in
\* between that marked a position correct which the first call had not seen
\* marked, and with a letter hinted.
C3_Witness ==
    \E p \in DOMAIN games :
        LET g == games[p]
        IN  /\ g.hinted_letters # {}
            /\ \E i, k, j \in DOMAIN g.attempts :
                  /\ i < k /\ k < j
                  /\ g.attempts[i][1] = g.attempts[j][1]
                  /\ g.attempts[i][2] = g.attempts[j][2]
                  /\ \E x \in Positions : /\ g.attempts[k][2][x] = Correct
                                          /\ g.attempts[i][2][x] # Correct

\* a guess that the validation of handle_process_guess lets through
WellFormed(guess) ==
    Len(guess) = 5 /\ \A i \in DOMAIN guess : isalpha_char(guess[i])

\* the step removes the session of p and records it, once, with the outcome won
EndedAndRecorded(p, won) ==
    /\ p \notin DOMAIN games'
    /\ \E r \in AllRecords(history') :
          /\ AllRecords(history') \ AllRecords(history) = {r}
          /\ r.won = won
          /\ r.word = games[p].secret_word
          /\ Len(r.guesses) = Len(games[p].attempts) + 1

\* the step keeps the session of p and records nothing
StaysActive(p) ==
    /\ p \in DOMAIN games'
    /\ games'[p].obj = games[p].obj
    /\ AllRecords(history') = AllRecords(history)

\* C5: after an accepted guess the session is ended and recorded as won iff
\* the guess is the secret word (on the 6th guess too), ended and recorded as
\* lost iff the guess is wrong and remaining reaches 0, and stays in the
\* registry in every other case.
C5_OutcomeOfAcceptedGuess ==
    [][\A p \in DOMAIN games, guess \in {g \in Guesses : WellFormed(g)} :
       \A guild_id \in Guilds, fast \in BOOLEAN :
          handle_process_guess(p, guild_id, guess, fast, FreshId)
          => IF lower(guess) = games[p].secret_word
             THEN EndedAndRecorded(p, TRUE)
             ELSE IF games[p].remaining - 1 = 0
             THEN EndedAndRecorded(p, FALSE)
             ELSE StaysActive(p)]_vars

\* C5 witness: a game won by its 6th guess has been recorded, after five
\* guesses that kept the session and a correct one that ended it.
C5_Witness ==
    /\ response.msg = "won"
    /\ response.user \notin DOMAIN games
    /\ \E r \in AllRecords(history) :
          /\ r.won
          /\ Len(r.guesses) = MAX_ATTEMPTS
          /\ r.guesses[MAX_ATTEMPTS].word = r.word
          /\ \A k \in 1..(MAX_ATTEMPTS - 1) : r.guesses[k].word # r.word

\* the counter of every session agrees with its attempts
C6_SessionCounter ==
    \A p \in DOMAIN games :
        /\ games[p].remaining = 6 - Len(games[p].attempts)
        /\ 1 <= games[p].remaining /\ games[p].remaining <= 6
        /\ \A k \in DOMAIN games[p].attempts :
              games[p].attempts[k][1] # games[p].secret_word

\* what a hint, a rejected guess and a wrong guess do to the counter
C6_CounterStep ==
    \A p \in DOMAIN games :
        /\ handle_give_hint(p)
              => p \in DOMAIN games' /\ games'[p].remaining = games[p].remaining
        /\ \A guild_id \in Guilds, guess \in Guesses, fast \in BOOLEAN :
              handle_process_guess(p, guild_id, guess, fast, FreshId) =>
                 IF ~WellFormed(guess)
                 THEN p \in DOMAIN games' /\ games'[p].remaining = games[p].remaining
                 ELSE IF lower(guess) = games[p].secret_word
                 THEN p \notin DOMAIN games'
                 ELSE IF Len(games[p].attempts) < 5
                 THEN /\ p \in DOMAIN games'
                      /\ games'[p].remaining = games[p].remaining - 1
                      /\ Len(games'[p].attempts) = Len(games[p].attempts) + 1
                 ELSE /\ EndedAndRecorded(p, FALSE)
                      /\ \E r \in AllRecords(history') \ AllRecords(history) :
                            6 - Len(r.guesses) = 0

\* C6: every session of the registry has remaining = 6 - len(attempts), in
\* 1..6, and no attempt equal to its secret; remaining changes by -1 per
\* accepted guess and by nothing else, the session is active after each of
\* the first five wrong guesses and is removed as a loss on the 6th.
C6_RemainingCountsAttempts ==
    []C6_SessionCounter /\ [][C6_CounterStep]_vars

\* C6 witness: a game lost by six wrong guesses has been recorded, and its
\* session is gone.
C6_Witness ==
    /\ response.msg = "lost"
    /\ response.user \notin DOMAIN games
    /\ \E r \in AllRecords(history) :
          /\ ~r.won
          /\ Len(r.guesses) = MAX_ATTEMPTS
          /\ \A k \in DOMAIN r.guesses : r.guesses[k].word # r.word

\* C7: a guess of a length other than 5, or with a non-alphabetic character,
\* is rejected by handle_process_guess and changes nothing: not the session,
\* the registry, the ledger, the achievements or the daily state.
C7_InvalidGuessChangesNothing ==
    [][\A p \in Players, guess \in {g \in Guesses : ~WellFormed(g)} :
       \A guild_id \in Guilds, fast \in BOOLEAN :
          handle_process_guess(p, guild_id, guess, fast, FreshId)
          => /\ response'.msg \in {"invalid", "start_first"}
             /\ UNCHANGED <<games, history, settings, daily, today, sleeping,
                            created, uuids, ended>>]_vars

\* C7 witness: a player with guesses made and hints taken has just had a
\* guess rejected as invalid.
C7_Witness ==
    /\ response.msg = "invalid"
    /\ response.user \in DOMAIN games
    /\ games[response.user].attempts # << >>
    /\ games[response.user].hints_used > 0

\* hints_used of every session, and of every recorded game, is in 0..3
C8_HintsInRange ==
    /\ \A p \in DOMAIN games : games[p].hints_used \in 0..3
    /\ \A r \in AllRecords(history) : r.hints \in 0..3

\* a hint request at hints_used = 3 fails and leaves the session as it is
C8_FourthHintFails ==
    \A p \in DOMAIN games :
        games[p].hints_used = 3 /\ handle_give_hint(p)
           => /\ response'.msg = "no_hints"
              /\ games' = games

\* C8: hints_used of every session stays within 0..3; a hint request made at
\* hints_used = 3 fails and changes neither hints_used nor hinted_letters,
\* whatever the board is.
C8_AtMostThreeHints ==
    []C8_HintsInRange /\ [][C8_FourthHintFails]_vars

\* C8 witness: a fourth hint has just been refused to a session that has
\* guesses on its board and positions still open.
C8_Witness ==
    /\ response.msg = "no_hints"
    /\ response.user \in DOMAIN games
    /\ games[response.user].hints_used = 3
    /\ games[response.user].attempts # << >>
    /\ available(games[response.user]) # {}

\* the positions neither marked correct nor showing a letter already hinted
Unrevealed(game) ==
    {i \in Positions : ~game.correct_positions[i]
                       /\ game.secret_word[i] \notin game.hinted_letters}

\* C9: a hint request succeeds only by selecting a position neither marked
\* correct nor already revealed, so that it adds a letter that hinted_letters
\* did not hold; when every position is marked correct or hinted it fails and
\* hints_used is not incremented.
C9_HintRevealsNewLetter ==
    [][\A p \in DOMAIN games :
          handle_give_hint(p) =>
             IF response'.msg = "hint"
             THEN /\ games'[p].hints_used = games[p].hints_used + 1
                  /\ \E i \in Unrevealed(games[p]) :
                        games'[p].hinted_letters =
                           games[p].hinted_letters \cup {games[p].secret_word[i]}
                  /\ games'[p].hinted_letters # games[p].hinted_letters
             ELSE /\ games' = games
                  /\ (Unrevealed(games[p]) = {} \/ games[p].hints_used >= MAX_HINTS)]_vars

\* a start request of a player who has a session is answered by a rejection
\* and changes nothing
C4_StartRejected ==
    \A p \in DOMAIN games, word \in WordSet :
        (start_new_game(p, word) \/ daily_command(p, word) \/ handle_daily(p, word))
           => /\ response'.user = p
              /\ response'.msg \in {"already_active", "played_today"}
              /\ games' = games
              /\ UNCHANGED <<history, settings, daily, today, sleeping, created, uuids, ended, history_view, timed_out, disk>>

\* no step puts another object in the place of a session
C4_NeverOverwritten ==
    \A p \in DOMAIN games : p \in DOMAIN games' => games'[p].obj = games[p].obj

\* every session object constructed so far is in the registry, under the
\* player it was made for, or has been removed by handle_end_game
C4_RemovedByEndGame ==
    /\ \A p \in DOMAIN games : games[p].user_id = p
    /\ \A p, q \in DOMAIN games : games[p].obj = games[q].obj => p = q
    /\ \A e \in ended : \A p \in DOMAIN games : games[p].obj # e.obj
    /\ {games[p].obj : p \in DOMAIN games} \cup {e.obj : e \in ended} = 1..created

\* C4: under any interleaving of the start requests of the players through
\* start_new_game, daily_command and handle_daily, a request of a player who
\* has a session is rejected and leaves secret word, attempts, remaining and
\* hint state of that session as they are; a session object is replaced only
\* after handle_end_game removed it.
C4_OneSessionPerPlayer ==
    []C4_RemovedByEndGame /\ [][C4_StartRejected /\ C4_NeverOverwritten]_vars

\* C4 witness: while both players hold a session, one of them, with a guess
\* on the board, has just been refused a start.
C4_Witness ==
    /\ response.msg = "already_active"
    /\ DOMAIN games = Players
    /\ games[response.user].attempts # << >>

Scopes == {"server", "global"}

\* the games of the log that count for user_id in the scope
PublicGames(user_id, scope, guild_id, won) ==
    {e \in ended : /\ e.user = user_id
                   /\ ~e.anonymous
                   /\ scope = "server" => e.guild_id = guild_id
                   /\ e.won \in won}

\* C10: after any sequence of games and of toggles of the anonymous setting,
\* no game that ended while its player had anonymous mode on is in a list of
\* get_user_games or counted in an entry of get_leaderboard, server or global.
C10_AnonymousGamesStayOut ==
    \A scope \in Scopes, guild_id \in Guilds :
        LET board == get_leaderboard(history, scope, guild_id)
        IN  /\ \A p \in Players :
                  LET mine == get_user_games(history, p, scope, guild_id)
                  IN  \A k \in DOMAIN mine :
                         \A e \in ended : e.anonymous => mine[k].id # e.id
            /\ \A n \in DOMAIN board :
                  /\ board[n].total =
                        Cardinality(PublicGames(board[n].user_id, scope, guild_id, BOOLEAN))
                  /\ board[n].wins =
                        Cardinality(PublicGames(board[n].user_id, scope, guild_id, {TRUE}))
                  /\ \A k \in DOMAIN board[n].last_games :
                        \A e \in ended : e.anonymous => board[n].last_games[k].id # e.id

\* C10 witness: a player has ended a game with anonymous mode on and, after
\* a toggle, a game with it off; the anonymous one is in the ledger under
\* the anon id and the global leaderboard counts one game for the player.
C10_Witness ==
    \E p \in Players :
        /\ \E e, f \in ended : /\ e.user = p /\ f.user = p
                               /\ e.anonymous /\ ~f.anonymous
                               /\ e.id < f.id
        /\ get_anonymous_games(history, AnonId(p)) # << >>
        /\ \E n \in DOMAIN get_leaderboard(history, "global", 1) :
              /\ get_leaderboard(history, "global", 1)[n].user_id = p
              /\ get_leaderboard(history, "global", 1)[n].total = 1

\* the records of a list that carry the id
WithId(list, id) == {k \in DOMAIN list : list[k].id = id}

\* the game of the log entry e is stored once under the anon id of its player
\* and nowhere else
StoredAnonymously(e) ==
    /\ settings[e.user].anon_id \in DOMAIN history.anonymous_games
    /\ \A a \in DOMAIN history.anonymous_games :
          Cardinality(WithId(history.anonymous_games[a], e.id)) =
             IF a = settings[e.user].anon_id THEN 1 ELSE 0
    /\ \A u \in DOMAIN history.global : WithId(history.global[u], e.id) = {}
    /\ \A g \in DOMAIN history.guilds : \A u \in DOMAIN history.guilds[g] :
          WithId(history.guilds[g][u], e.id) = {}

\* the game of the log entry e is stored once under its guild and player, once
\* under global and player, as the same record, and nowhere else
StoredPublicly(e) ==
    /\ e.user \in DOMAIN history.global
    /\ e.guild_id \in DOMAIN history.guilds
    /\ e.user \in DOMAIN history.guilds[e.guild_id]
    /\ \A u \in DOMAIN history.global :
          Cardinality(WithId(history.global[u], e.id)) = IF u = e.user THEN 1 ELSE 0
    /\ \A g \in DOMAIN history.guilds : \A u \in DOMAIN history.guilds[g] :
          Cardinality(WithId(history.guilds[g][u], e.id)) =
             IF g = e.guild_id /\ u = e.user THEN 1 ELSE 0
    /\ \A k \in WithId(history.global[e.user], e.id) :
          \A n \in WithId(history.guilds[e.guild_id][e.user], e.id) :
             history.global[e.user][k] = history.guilds[e.guild_id][e.user][n]
    /\ \A a \in DOMAIN history.anonymous_games :
          WithId(history.anonymous_games[a], e.id) = {}

\* C11: each finished game is stored under one identity, decided by the
\* anonymous setting of its player at the moment the session ended: with the
\* setting on, in anonymous_games under the anon_id only; with it off, as the
\* same record in guilds[guild].users[player] and in global.users[player], and
\* in no anonymous partition.
C11_OneIdentityPerGame ==
    \A e \in ended : IF e.anonymous THEN StoredAnonymously(e) ELSE StoredPublicly(e)

\* C11 witness: a player has ended a public game in guild 2 and then, with the
\* setting switched on, an anonymous game; each lies where its setting put it.
C11_Witness ==
    \E e, f \in ended :
        /\ e.user = f.user /\ f.id < e.id
        /\ e.anonymous /\ ~f.anonymous /\ f.guild_id = 2
        /\ StoredAnonymously(e) /\ StoredPublicly(f)

\* list is what new ends with
IsSuffix(list, new) ==
    /\ Len(list) <= Len(new)
    /\ \A k \in DOMAIN list : new[Len(new) - Len(list) + k] = list[k]

\* every list of the ledger is still there after the step, with its records
\* as they were
C12_RecordsKept ==
    /\ \A u \in DOMAIN history.global :
          /\ u \in DOMAIN history'.global
          /\ IsSuffix(history.global[u], history'.global[u])
    /\ \A a \in DOMAIN history.anonymous_games :
          /\ a \in DOMAIN history'.anonymous_games
          /\ IsSuffix(history.anonymous_games[a], history'.anonymous_games[a])
    /\ \A g \in DOMAIN history.guilds :
          /\ g \in DOMAIN history'.guilds
          /\ \A u \in DOMAIN history.guilds[g] :
                /\ u \in DOMAIN history'.guilds[g]
                /\ IsSuffix(history.guilds[g][u], history'.guilds[g][u])

\* a step stores one record for the session that leaves the registry, a loss
\* when the session is quit, and no record when no session leaves
C12_OneRecordPerEnding ==
    LET left == {p \in DOMAIN games : p \notin DOMAIN games'}
        new  == AllRecords(history') \ AllRecords(history)
    IN  /\ Cardinality(new) = Cardinality(left)
        /\ \A p \in left : \E r \in new : r.word = games[p].secret_word
        /\ \A p \in left, guild_id \in Guilds :
              quit_button(p, guild_id, FALSE, FreshId) =>
                 \E r \in new : ~r.won /\ Len(r.guesses) = Len(games[p].attempts)

\* the records stored for a player, under the real id and under the anon id
RecordsOf(p) ==
    {Get(history.global, p, << >>)[k] : k \in DOMAIN Get(history.global, p, << >>)}
      \cup
    (IF p \in DOMAIN settings
     THEN {get_anonymous_games(history, settings[p].anon_id)[k] :
              k \in DOMAIN get_anonymous_games(history, settings[p].anon_id)}
     ELSE {})

\* a player has as many records as sessions ended
C12_RecordsCountEndings ==
    \A p \in Players :
        /\ Cardinality(RecordsOf(p)) = Cardinality({e \in ended : e.user = p})
        /\ Cardinality({r.id : r \in RecordsOf(p)}) = Cardinality({e \in ended : e.user = p})

\* C12: every session that leaves the registry, by a win, by the last attempt
\* or by a quit (recorded as a loss), produces one history record, and no
\* later operation modifies or removes a record; so the number of records of
\* a player is the number of their ended sessions.
C12_OneRecordPerEndedSession ==
    []C12_RecordsCountEndings /\ [][C12_RecordsKept /\ C12_OneRecordPerEnding]_vars

\* C12 witness: a player has a game won by a guess and, recorded after it, a
\* game quit before any guess, stored as a loss; both records are in place.
C12_Witness ==
    \E p \in Players :
        /\ p \notin DOMAIN games
        /\ Cardinality(RecordsOf(p)) = 2
        /\ \E r, q \in RecordsOf(p) :
              /\ r.id < q.id
              /\ r.won /\ Len(r.guesses) = 2
              /\ ~q.won /\ q.guesses = << >>

\* C13: ending a game is idempotent: a quit of a player who has no session in
\* the registry, a second quit right after the first included, does nothing:
\* no history record, no achievement, no daily participant, now or later.
C13_QuitWithoutSessionIsNoOp ==
    [][\A p \in Players \ DOMAIN games :
          \A guild_id \in Guilds, fast \in BOOLEAN, id \in RecordIds :
             quit_button(p, guild_id, fast, id) => UNCHANGED vars]_vars

\* C13 witness: the player has quit a game with guesses on its board; the
\* coroutine of that quit is still in its pause, the session is gone and one
\* record is stored: the state a second quit finds and leaves.
C13_Witness ==
    /\ response.msg = "lost"
    /\ response.user \notin DOMAIN games
    /\ \E c \in sleeping : c.user = response.user /\ c.attempts \in 1..(MAX_ATTEMPTS - 1)
    /\ Cardinality(AllRecords(history)) = 1
    /\ Cardinality(ended) = 1

\* what get_daily_word does to the daily data of the current state, for every
\* word random.choice may draw: a stale date gives the drawn word, no
\* participants and today's date together; an up-to-date one leaves the data
\* as they are; a second call on the same date is of the second kind
C14_ResetOrKeep ==
    \A word, again \in WordSet :
        LET d == get_daily_word(daily, today, word)
        IN  /\ d.last_updated = today
            /\ IF daily.last_updated # today
               THEN d.current_word = word /\ d.participants = EmptyDict
               ELSE d = daily
            /\ get_daily_word(d, today, again) = d

\* what a step of the bot does to the stored date and word: the date moves
\* only forward, from a date that is not today's to today's, and whoever is a
\* participant after that step was entered in it; the word changes with the
\* date only
C14_ResetStep ==
    /\ daily'.last_updated # daily.last_updated =>
          /\ daily.last_updated # today
          /\ daily'.last_updated = today
          /\ daily'.last_updated > daily.last_updated
          /\ daily'.current_word \in WordSet
          /\ \A q \in DOMAIN daily'.participants :
                daily'.participants[q].timestamp = today
    /\ daily'.last_updated = daily.last_updated =>
          daily'.current_word = daily.current_word

\* C14: the daily word is regenerated lazily, on the first get_daily_word of
\* a date: word, empty participants and date are set in one step; on the
\* same date the stored word is returned and nothing changes; the reset
\* happens at most once per date.
C14_LazyDailyReset == []C14_ResetOrKeep /\ [][C14_ResetStep]_vars

\* C14 witness: on the second day the word has been drawn again; a player
\* who won a game the day before is no participant any more, another one who
\* won today is.
C14_Witness ==
    /\ today = 2
    /\ daily.last_updated = 2
    /\ \E p, q \in Players :
          /\ p # q
          /\ p \notin DOMAIN daily.participants
          /\ \E r \in RecordsOf(p) : r.won
          /\ q \in DOMAIN daily.participants
          /\ daily.participants[q].timestamp = 2

\* the player has an entry among the participants that was made today
PlayedToday(p) ==
    /\ p \in DOMAIN daily.participants
    /\ daily.participants[p].timestamp = today

\* C15: has_played(p) is true exactly when p was recorded as a participant
\* on the current date, also before the first access to the daily data on a
\* new day; handle_daily rejects a player only for a participation of today.
C15_HasPlayedIsOfToday ==
    /\ [](\A p \in Players : has_played(daily, p) <=> PlayedToday(p))
    /\ [][\A p \in Players, word \in WordSet :
            handle_daily(p, word) /\ response'.msg = "played_today"
               => PlayedToday(p)]_vars

\* C16: a player is entered among the daily participants at most once per
\* day: while the stored date stays, an entry keeps its attempts and its
\* timestamp, whatever game ends later.
C16_OneEntryPerDay ==
    [][daily'.last_updated = daily.last_updated =>
          \A p \in DOMAIN daily.participants :
              /\ p \in DOMAIN daily'.participants
              /\ daily'.participants[p] = daily.participants[p]]_vars

\* the participants that come before p on the daily leaderboard: fewer
\* attempts, or as many and an earlier timestamp
AheadOf(p) ==
    { q \in DOMAIN daily.participants :
        \/ daily.participants[q].attempts < daily.participants[p].attempts
        \/ /\ daily.participants[q].attempts = daily.participants[p].attempts
           /\ daily.participants[q].timestamp < daily.participants[p].timestamp }

\* the participants with the attempts and the timestamp of p, p included
LevelWith(p) ==
    { q \in DOMAIN daily.participants :
        /\ daily.participants[q].attempts = daily.participants[p].attempts
        /\ daily.participants[q].timestamp = daily.participants[p].timestamp }

\* C17: get_daily_rank gives a participant its 1-based position on the daily
\* leaderboard, ordered by ascending attempts and then ascending timestamp.
C17_DailyRank ==
    \A p \in DOMAIN daily.participants :
        LET rank == get_daily_rank(daily, p)
        IN  /\ rank.ok
            /\ rank.value > Cardinality(AheadOf(p))
            /\ rank.value <= Cardinality(AheadOf(p)) + Cardinality(LevelWith(p))

\* the players the log of ended games gives an entry in the scope: those who
\* ended a game there under their real identity
Ranked(scope, guild_id) ==
    {p \in Players : PublicGames(p, scope, guild_id, BOOLEAN) # {}}

\* C18: get_leaderboard(scope, guild) has exactly one entry per player with a
\* record under the real identity in the scope; total and wins of the entry
\* count those records and the won ones among them; the entries are ordered
\* by descending wins and, among equal wins, by descending total.
C18_Leaderboard ==
    \A scope \in Scopes, guild_id \in Guilds :
        \A s \in sorted_leaderboards(history, scope, guild_id) \cup
                   {get_leaderboard(history, scope, guild_id)} :
            /\ {s[i].user_id : i \in DOMAIN s} = Ranked(scope, guild_id)
            /\ Len(s) = Cardinality(Ranked(scope, guild_id))
            /\ \A i \in DOMAIN s :
                  /\ s[i].total = Cardinality(PublicGames(s[i].user_id, scope, guild_id, BOOLEAN))
                  /\ s[i].wins = Cardinality(PublicGames(s[i].user_id, scope, guild_id, {TRUE}))
                  /\ s[i].total >= 1
            /\ \A i, j \in DOMAIN s :
                  i < j => \/ s[i].wins > s[j].wins
                           \/ s[i].wins = s[j].wins /\ s[i].total >= s[j].total

\* C18 witness: two players have one win each in guild 1 and one of them a
\* lost game more; a third game, played in anonymous mode, would not count.
\* The board of guild 1 lists the player with two games first.
C18_Witness ==
    \E p, q \in Players :
        /\ p # q
        /\ Cardinality(PublicGames(p, "server", 1, {TRUE})) = 1
        /\ Cardinality(PublicGames(p, "server", 1, {FALSE})) = 1
        /\ Cardinality(PublicGames(q, "server", 1, BOOLEAN)) = 1
        /\ Cardinality(PublicGames(q, "server", 1, {TRUE})) = 1
        /\ get_leaderboard(history, "server", 1)[1].user_id = p
        /\ get_leaderboard(history, "server", 1)[2].user_id = q

\* the first element of new is the record of the session game ended as won,
\* and the rest of new is old
RecordedFirst(old, new, game, won) ==
    /\ new # << >>
    /\ Head(new).won = won
    /\ Head(new).word = game.secret_word
    /\ Head(new).hints = game.hints_used
    /\ Head(new).attempts = Len(game.attempts)
    /\ Len(Head(new).guesses) = Len(game.attempts)
    /\ \A k \in DOMAIN game.attempts :
          /\ Head(new).guesses[k].word = game.attempts[k][1]
          /\ Head(new).guesses[k].result = game.attempts[k][2]
    /\ Tail(new) = old

\* after the step that ended the session game of p in the guild, every list
\* the record went to starts with it: the list of the anon id when the player
\* is anonymous, the lists of both scopes otherwise
RecordedInFront(p, guild_id, game, won) ==
    IF settings'[p].anonymous
    THEN RecordedFirst(get_anonymous_games(history, settings'[p].anon_id),
                       get_anonymous_games(history', settings'[p].anon_id), game, won)
    ELSE \A scope \in Scopes :
            RecordedFirst(get_user_games(history, p, scope, guild_id),
                          get_user_games(history', p, scope, guild_id), game, won)

\* a quit, and a guess that ends the game, put the record of the session in
\* front of the list
C19_EndingStep ==
    \A p \in DOMAIN games, guild_id \in Guilds :
        /\ quit_button(p, guild_id, FALSE, FreshId)
              => RecordedInFront(p, guild_id, games[p], FALSE)
        /\ \A guess \in Guesses :
              handle_process_guess(p, guild_id, guess, FALSE, FreshId) /\ p \notin DOMAIN games'
                 => RecordedInFront(p, guild_id, check_guess(games[p], lower(guess)),
                                    lower(guess) = games[p].secret_word)

\* the lists get_user_games and get_anonymous_games can return
LedgerLists ==
    {get_user_games(history, p, sg[1], sg[2]) : p \in Players, sg \in Scopes \X Guilds}
      \cup
    {get_anonymous_games(history, a) : a \in DOMAIN history.anonymous_games}

\* in every list a record comes before those recorded earlier; the ids of
\* the records are the numbers of their uuid4 draws here, so a later record
\* has the greater id
C19_NewestFirst ==
    \A list \in LedgerLists :
        \A i, j \in DOMAIN list : i < j => list[i].id > list[j].id

\* C19: right after add_game the first element of get_user_games (of
\* get_anonymous_games under anonymous mode) has the won, word and hints
\* that were passed, attempts equal to the number of guesses, and the
\* session's (word, result) pairs in order as guesses; the older records
\* follow unchanged, so the list is in reverse order of recording.
C19_NewestRecordFirst == []C19_NewestFirst /\ [][C19_EndingStep]_vars

\* C19 witness: the global list of a player holds two records: in front a
\* game won by the second guess after one hint, behind it a game that was
\* quit before any guess.
C19_Witness ==
    \E p \in Players :
        LET list == get_user_games(history, p, "global", 1)
        IN  /\ Len(list) = 2
            /\ list[1].won /\ list[1].attempts = 2 /\ list[1].hints = 1
            /\ list[1].guesses[2].word = list[1].word
            /\ list[1].guesses[1].word # list[1].word
            /\ ~list[2].won /\ list[2].attempts = 0
            /\ list[2].id < list[1].id

\* the places of the ledger, under real ids and under anon ids, that hold a
\* record with the id; the list of a guild repeats the record of global
GlobalPlaces(id) ==
    {uk \in (DOMAIN history.global) \X (1..MaxLedgerGames) :
        uk[2] \in WithId(history.global[uk[1]], id)}

AnonymousPlaces(id) ==
    {ak \in (DOMAIN history.anonymous_games) \X (1..MaxLedgerGames) :
        ak[2] \in WithId(history.anonymous_games[ak[1]], id)}

\* C20: record ids are unique: no two records that come from different
\* finished sessions carry the same id, across all partitions.
C20_UniqueRecordIds ==
    /\ \A e, f \in ended : e.obj # f.obj => e.id # f.id
    /\ \A id \in RecordIds :
          Cardinality(GlobalPlaces(id)) + Cardinality(AnonymousPlaces(id)) <= 1

\* the achievements of the player, with the timestamps of their unlocks
Unlocked(data, p) == Get(data.achievements, p, EmptyDict)

\* a step keeps every unlock with its timestamp
C21_UnlocksKept ==
    \A p \in DOMAIN history.achievements :
        /\ p \in DOMAIN history'.achievements
        /\ \A a \in DOMAIN history.achievements[p] :
              /\ a \in DOMAIN history'.achievements[p]
              /\ history'.achievements[p][a] = history.achievements[p][a]

\* what check_achievements would return for a session of the registry, as it
\* is or after one more guess, holds nothing the player has already
C21_NothingTwice ==
    \A p \in DOMAIN games, fast \in BOOLEAN :
        \A game \in {games[p]} \cup {check_guess(games[p], guess) : guess \in WordSet} :
            new_achievements(history, get_settings(settings, p)[p], p, game, fast)
               \cap DOMAIN Unlocked(history, p) = {}

\* C21: achievement unlocks are write-once: a timestamp once stored for
\* (player, achievement) is never changed or removed by a later
\* check_achievements, and check_achievements never returns an achievement
\* the player already has.
C21_UnlocksAreWriteOnce == []C21_NothingTwice /\ [][C21_UnlocksKept]_vars

\* C21 witness: a player ended a game without hints on the first day and
\* another one on the second day; the unlock of hint_hater still carries the
\* first day.
C21_Witness ==
    \E p \in Players :
        /\ "hint_hater" \in DOMAIN Unlocked(history, p)
        /\ Unlocked(history, p)["hint_hater"] = 1
        /\ \E r, q \in RecordsOf(p) :
              /\ r.timestamp = 1 /\ r.hints = 0
              /\ q.timestamp = 2 /\ q.hints = 0

\* the achievements that are decided on the game that just ended
PerGame == {"speedster", "perfectionist", "hint_hater"}

\* C22: speedster, perfectionist and hint_hater are unlocked only by a
\* finished game that was won: a step that unlocks one of them for a player
\* is the end of a game this player won; a loss or a quit unlocks none,
\* whatever its duration, attempts and hints.
C22_PerGameUnlocksNeedAWin ==
    [][\A p \in Players :
          (DOMAIN Unlocked(history', p) \ DOMAIN Unlocked(history, p)) \cap PerGame # {}
             => /\ p \in DOMAIN games /\ p \notin DOMAIN games'
                /\ response' = [user |-> p, msg |-> "won"]]_vars

\* C23: a player without perfectionist who wins a game with the first guess
\* gets perfectionist: check_achievements returns it as new and stores it.
C23_FirstGuessWinUnlocksPerfectionist ==
    [][\A p \in DOMAIN games, fast \in BOOLEAN :
          /\ games[p].attempts = << >>
          /\ "perfectionist" \notin DOMAIN Unlocked(history, p)
          /\ handle_process_guess(p, 1, games[p].secret_word, fast, FreshId)
          => /\ "perfectionist" \in
                   new_achievements(history, get_settings(settings, p)[p], p,
                                    check_guess(games[p], games[p].secret_word), fast)
             /\ "perfectionist" \in DOMAIN Unlocked(history', p)]_vars

\* the games the player has finished, public and anonymous together
Finished(p) == Cardinality({e \in ended : e.user = p})

\* C24: veteran is decided on the total of finished games with the game
\* that just ended in it: once handle_end_game is through for the N-th
\* finished game of a player, veteran is unlocked iff N >= 100.
C24_VeteranAtHundredGames ==
    \A p \in Players :
        (\A c \in sleeping : c.user # p) =>
            ("veteran" \in DOMAIN Unlocked(history, p) <=> Finished(p) >= VETERAN_GAMES)

\* a game of the player on today's daily word has ended: the coroutine of
\* its end is in its pause, or the player is entered as a participant of today
DailyGameEnded(p) ==
    \/ PlayedToday(p)
    \/ /\ daily.last_updated = today
       /\ \E c \in sleeping : c.user = p /\ c.secret_word = daily.current_word

\* C29: once a player's game on the daily word has ended, every later
\* handle_daily of that player on the same day is rejected, also the one
\* that comes during the 10-second pause of handle_end_game, after the
\* session left the registry and before add_participant runs.
C29_NoSecondDailyGame ==
    [][\A p \in Players, word \in WordSet :
          DailyGameEnded(p) /\ handle_daily(p, word)
             => response' = [user |-> p, msg |-> "played_today"]]_vars

\* C30: for every 5-letter secret S and guess G, check_guess of bot2.py
\* marks no more Correct-or-Present occurrences of a letter than the letter
\* has in S: it is not the single-pass evaluation.
C30_Bot2NoMoreMarksThanOccurrences ==
    \A p \in DOMAIN games, c \in Alphabet :
        \A k \in DOMAIN games[p].attempts :
            Marked(games[p].attempts[k][1], games[p].attempts[k][2], c)
               <= Occurrences(games[p].secret_word, c)

\* the histories that differ from data in the anonymous games of the player
\* only: the list of the player's anon id is cut at some place or is not there
OtherAnonymousGames(data, p) ==
    LET anon_id == settings[p].anon_id
        list    == get_anonymous_games(data, anon_id)
    IN  {[data EXCEPT !.anonymous_games = Put(@, anon_id, SubSeq(list, k, Len(list)))] :
             k \in 1..(Len(list) + 1)}
          \cup
        {[data EXCEPT !.anonymous_games =
             [a \in DOMAIN data.anonymous_games \ {anon_id} |-> data.anonymous_games[a]]]}

\* C26: what a requester other than the owner learns about a player under
\* the player's real identity does not depend on the player's anonymous
\* games: two histories that differ only in those games give the same
\* show_stats, the same get_user_games and the same get_leaderboard.
C26_AnonymousGamesDoNotShow ==
    \A p \in DOMAIN settings :
        \A requester \in Players \ {p}, other \in OtherAnonymousGames(history, p) :
            /\ stats_embed(other, settings[p], requester, p)
                  = stats_embed(history, settings[p], requester, p)
            /\ \A scope \in Scopes, guild_id \in Guilds :
                  /\ get_user_games(other, p, scope, guild_id)
                        = get_user_games(history, p, scope, guild_id)
                  /\ sorted_leaderboards(other, scope, guild_id)
                        = sorted_leaderboards(history, scope, guild_id)

\* C27: a session whose GameView has timed out, having had no action of its
\* player for 300 seconds, is eventually abandoned: it leaves cog.games, so
\* that start_new_game accepts the player again.
C27_IdleSessionIsAbandoned ==
    \A p \in Players :
        (p \in DOMAIN games /\ games[p].obj \in timed_out) ~> (p \notin DOMAIN games)

\* the answers that tell a requester that the anonymous games stay closed
Rejections == {"no_password", "wrong_password"}

\* the view turns to the anonymous games only out of a modal whose password
\* was verified, and a modal is verified only by a password that matches the
\* stored hash of the player of the view
VerifiedFirst ==
    LET view == history_view
    IN  /\ (view.current_mode # "anonymous" /\ view'.current_mode = "anonymous")
              => view.modal.state = "submitted" /\ view.modal.verified
        /\ (~view.modal.verified /\ view'.modal.verified)
              => /\ view.user_id \in DOMAIN settings
                 /\ settings[view.user_id].anon_password # NoPassword
                 /\ verify_password(settings[view.user_id].anon_password, view'.modal.entered)

\* asking for the anonymous games of a player without a password is rejected
RejectedWithoutPassword ==
    \A requester \in Players :
        ( /\ update_mode(requester, "anonymous")
          /\ get_settings(settings, history_view.user_id)[history_view.user_id].anon_password
                = NoPassword )
            => /\ response' = [user |-> requester, msg |-> "no_password"]
               /\ history_view' = history_view

\* an attempt with a password that was not verified ends with a rejection
RejectedWithWrongPassword ==
    \A requester \in Players :
        (update_mode_resume(requester) /\ ~history_view.modal.verified)
            => /\ response'.msg \in Rejections
               /\ history_view'.current_mode = history_view.current_mode
               /\ history_view'.page = history_view.page

\* C25: a HistoryView shows the anonymous games of its player only after the
\* entered password was verified against the stored hash of that player;
\* without a stored password, or with a wrong one, the rejection is shown
\* and the view keeps its public mode and its page.
C25_AnonymousGamesBehindPassword ==
    [][VerifiedFirst /\ RejectedWithoutPassword /\ RejectedWithWrongPassword]_vars

\* the session of the finished game e is not in the registry
StaysRemoved(e) == e.user \notin DOMAIN games \/ games[e.user].obj # e.obj

\* the record of the finished game e is in a list of the ledger in memory
RecordKept(e) ==
    \E list \in LedgerLists :
        \E k \in 1..Len(list) :
            list[k].id = e.id /\ list[k].won = e.won /\ list[k].word = e.word

\* once nothing of handle_end_game is left to run for the finished game e,
\* a game on the daily word of the day it ended on has its player among
\* the participants of that day in memory
ParticipationKept(e) ==
    ( /\ daily.last_updated = e.day
      /\ daily.current_word = e.word
      /\ ~\E c \in sleeping : c.obj = e.obj )
        => e.user \in DOMAIN daily.participants

\* a step that writes the history file or the daily file writes what is in
\* memory after the step
SaveWritesMemory ==
    /\ disk'.history # disk.history => disk'.history = history'
    /\ disk'.daily # disk.daily => disk'.daily = daily'

\* C28: a write that fails in handle_end_game loses nothing of the outcome
\* in memory: the session of every finished game stays removed, its record
\* is in the ledger, the daily participation it earned is in the daily state,
\* and the next save that succeeds writes them.
C28_OutcomeOutlivesFailedWrite ==
    /\ [](\A e \in ended : StaysRemoved(e) /\ RecordKept(e) /\ ParticipationKept(e))
    /\ [][SaveWritesMemory]_vars

====
